---- MODULE Spec2Model ----
(***************************************************************************)
(* BrowserArcade: four game modules (Snake, Pac-Man, Tetris, Breakout)     *)
(* sharing one canvas, HUD and overlay.  Each module is a closure with its *)
(* own `state`, rafId, key listeners and (Snake, Pac-Man) a life-lost      *)
(* timer id; the best score of each game lives in localStorage.            *)
(*                                                                         *)
(* Modelling conventions                                                   *)
(*  - A module closure is one record variable (snake, pacman, ...) with    *)
(*    the fields state, rafId, runningAttached, lifeLostTimeoutId.         *)
(*    state = NoState is the source's `state = null` / undefined.             *)
(*  - Handlers are pure operators from a world [mod, ov, st] (module       *)
(*    closure, shared overlay element, localStorage) to the SET of worlds  *)
(*    the handler can end in; the set has more than one element where the  *)
(*    code calls Math.random().                                            *)
(*  - Time: the code only ever uses differences ts - lastXTs, so a time    *)
(*    stamp is stored as its age (ms since it was taken) and NoTs stands   *)
(*    for the source's 0 ("not set yet").  A frame callback arrives d ms   *)
(*    after the previous clock reading; performance.now() read inside a    *)
(*    handler is the time of that handler.                                 *)
(*  - A world also carries log, the record of the loseLife() calls made   *)
(*    so far by the running handler; it is history only and no handler     *)
(*    reads it.                                                            *)
(*  - The helper functions of the modules (rotateCW, getBestScore, ...)   *)
(*    are operators; besides their use by the handlers they are applied   *)
(*    on their own to arguments drawn from bounded sets, the call and its *)
(*    result being kept in the variable call.                             *)
(*  - Rendering (draw*, particles, bgHue, colours) and sound are left out: *)
(*    nothing they write is read by the simulation.                        *)
(***************************************************************************)
EXTENDS Integers, Sequences, FiniteSets, TLC

VARIABLES
  focus,      \* which game module this behaviour exercises
  snake,      \* closure of createSnakeGame()
  pacman,     \* closure of createPacmanGame()
  breakout,   \* closure of createBreakoutGame()
  tetris,     \* closure of createTetrisGame()
  overlay,    \* the shared overlay element: [hidden, title]
  storage,    \* localStorage: key -> [has, raw], raw the stored string (its characters)
  peak,       \* history: the largest score the focused game has shown so far
  lossLog,    \* history: the loseLife() calls of the last handler, each as
              \* the state and storage before and after the call
  meter,      \* bookkeeping for the bounds on frames and random draws
  call,       \* a helper function applied on its own: its name, its
              \* arguments and what it returned (NoCall while a game runs)
  muted       \* the router's muted flag and audioState.muted of each module

vars == <<focus, snake, pacman, breakout, tetris, overlay, storage, peak, lossLog, meter, call,
          muted>>

\* null for ids and handles; NoState for a null object
Null == "null"
NoState == [null |-> TRUE]
NoTs == -1

Max(a, b) == IF a >= b THEN a ELSE b
Min(a, b) == IF a <= b THEN a ELSE b

Pos(x, y) == [x |-> x, y |-> y]

(***************************************************************************)
(* localStorage and the best-score helpers (identical in all four games).  *)
(***************************************************************************)
Digits == <<"0", "1", "2", "3", "4", "5", "6", "7", "8", "9">>

DigitChar(d) == Digits[d + 1]

DigitVal(c) == CHOOSE d \in 0..9 : Digits[d + 1] = c

RECURSIVE ToStringNat(_)
\* String(value) for a non-negative integer: its decimal digits
ToStringNat(n) ==
  IF n < 10 THEN <<DigitChar(n)>>
  ELSE Append(ToStringNat(n \div 10), DigitChar(n % 10))

RECURSIVE NumberOfDigits(_, _)
NumberOfDigits(str, acc) ==
  IF str = <<>> THEN acc
  ELSE NumberOfDigits(Tail(str), acc * 10 + DigitVal(Head(str)))

IsDigit(c) == \E d \in 1..10 : Digits[d] = c

AllDigits(str) == str # <<>> /\ \A i \in 1..Len(str) : IsDigit(str[i])

RECURSIVE TrimLeft(_)
TrimLeft(str) == IF str # <<>> /\ Head(str) = " " THEN TrimLeft(Tail(str)) ELSE str

RECURSIVE TrimRight(_)
TrimRight(str) ==
  IF str # <<>> /\ str[Len(str)] = " " THEN TrimRight(SubSeq(str, 1, Len(str) - 1)) ELSE str

InfinityChars == <<"I", "n", "f", "i", "n", "i", "t", "y">>

\* a JavaScript number: an integer, NaN, Infinity or -Infinity
Num(n) == [kind |-> "num", val |-> n]
NaN == [kind |-> "nan", val |-> 0]
Infinite(sign) == [kind |-> "inf", val |-> sign]

\* Number(raw) for a string: white space trimmed, the empty string is 0, a
\* decimal numeral or Infinity with an optional minus sign is its value,
\* anything else is NaN.  (Strings with '+', '.', an exponent or a 0x / 0o /
\* 0b prefix are not among the strings the model draws.)
StringToNumber(raw) ==
  LET t == TrimRight(TrimLeft(raw))
  IN IF t = <<>> THEN Num(0)
     ELSE IF AllDigits(t) THEN Num(NumberOfDigits(t, 0))
     ELSE IF t = InfinityChars THEN Infinite(1)
     ELSE IF Head(t) = "-" /\ Tail(t) = InfinityChars THEN Infinite(-1)
     ELSE IF Head(t) = "-" /\ AllDigits(Tail(t)) THEN Num(-NumberOfDigits(Tail(t), 0))
     ELSE NaN

RECURSIVE LeadingDigits(_)
LeadingDigits(str) ==
  IF str # <<>> /\ IsDigit(Head(str)) THEN <<Head(str)>> \o LeadingDigits(Tail(str)) ELSE <<>>

\* a getBestScore that reads the digits a malformed value starts with
getBestScore_ReadsPrefix(st, key) ==
  LET item == st[key]
  IN IF ~item.has \/ item.raw = <<>> THEN 0
     ELSE LET n == StringToNumber(item.raw)
          IN IF n.kind = "num" THEN n.val ELSE NumberOfDigits(LeadingDigits(item.raw), 0)

\* getBestScore: raw ? Number(raw) : 0, and 0 unless finite
getBestScore(st, key) ==
  LET item == st[key]
  IN IF ~item.has \/ item.raw = <<>> THEN 0
     ELSE LET n == StringToNumber(item.raw)
          IN IF n.kind = "num" THEN n.val ELSE 0

setBestScore(st, key, value) ==
  [st EXCEPT ![key] = [has |-> TRUE, raw |-> ToStringNat(value)]]

\* history only: what one loseLife() call saw and what it left.  Board(s) is
\* the part of a state s a life loss is expected to keep (pellets, bricks),
\* Actors(s) the part it is expected to put back (snake, Pac-Man and ghosts, ball).
logLoss(w, res, Board(_), Actors(_)) ==
  [res EXCEPT !.log = Append(w.log,
     [pre  |-> [score |-> w.mod.state.score, lives |-> w.mod.state.lives,
                board |-> Board(w.mod.state), st |-> w.st],
      post |-> [score |-> res.mod.state.score, lives |-> res.mod.state.lives,
                running |-> res.mod.state.running,
                board |-> Board(res.mod.state), actors |-> Actors(res.mod.state),
                st |-> res.st]])]

showOverlay(ov, title) == [hidden |-> FALSE, title |-> title]

hideOverlay(ov) == [ov EXCEPT !.hidden = TRUE]

(***************************************************************************)
(* SNAKE  (src/unnamed/part_000)                                           *)
(***************************************************************************)
\* The board is GRID_SIZE x GRID_SIZE cells (24 in the source); every
\* definition below is written in terms of GRID_SIZE and the model is
\* checked on a smaller board.
GRID_SIZE == 3

INITIAL_SPEED_MS == 120
MIN_SPEED_MS == 60
SPEEDUP_EVERY == 5
FOOD_MOVE_MS == 1260
SNAKE_KEY == "snake_best_score"

\* Frames stop being delivered to a run whose score has reached MaxScore.
MaxScore == 2

\* Gaps (ms) between a frame callback and the previous clock reading: one
\* snake tick, or a stall long enough for every catch-up cap of loop to bind.
\* A frame that arrives while the game is paused arrives after a stall.
SnakeStallMs == 3 * FOOD_MOVE_MS
SnakeShortMs == 210
SnakeFrameMs == {SnakeShortMs, SnakeStallMs}

\* per life: frames that step the snake, and direction keys
MaxSnakeFrames == 3
MaxSnakeKeys == 2

\* An age older than the cap behaves like the cap: loop takes min(5, ...)
\* snake steps and min(3, ...) food hops.
StepAgeCap == 5 * INITIAL_SPEED_MS
FoodAgeCap == 3 * FOOD_MOVE_MS

Age(ts, d, cap) == IF ts = NoTs THEN NoTs ELSE Min(ts + d, cap)

Cells == {Pos(x, y) : x \in 0..(GRID_SIZE - 1), y \in 0..(GRID_SIZE - 1)}

\* [{x:1,y:0}, {x:-1,y:0}, {x:0,y:1}, {x:0,y:-1}]
FoodDirs == <<Pos(1, 0), Pos(-1, 0), Pos(0, 1), Pos(0, -1)>>

SeqToSet(q) == {q[i] : i \in 1..Len(q)}

samePos(a, b) == a.x = b.x /\ a.y = b.y

isOpposite(a, b) == a.x = -b.x /\ a.y = -b.y

\* a bounds test that is off by one at the far edge
InGrid_OffByOne(p) == p.x >= 0 /\ p.x <= GRID_SIZE /\ p.y >= 0 /\ p.y <= GRID_SIZE

InGrid(p) == p.x >= 0 /\ p.x < GRID_SIZE /\ p.y >= 0 /\ p.y < GRID_SIZE

\* spawnFood: the cells it can return.  Each of the 2000 draws is any cell;
\* the first free one is returned, and (0,0) if every draw was occupied.
\* a spawnFood that does not look at the snake
spawnFood_AnyCell(body) == Cells

spawnFood(body) ==
  (Cells \ SeqToSet(body)) \cup (IF body = <<>> THEN {} ELSE {Pos(0, 0)})

\* resetSnakePosition: 3-cell snake in the middle heading right, speed and
\* step timer reset, new food and food direction
Snake_resetSnakePosition(w) ==
  LET mid  == GRID_SIZE \div 2
      body == <<Pos(mid + 1, mid), Pos(mid, mid), Pos(mid - 1, mid)>>
      base == [w.mod.state EXCEPT !.snake = body,
                                  !.dir = Pos(1, 0),
                                  !.queuedDir = Pos(1, 0),
                                  !.tickMs = INITIAL_SPEED_MS,
                                  !.lastStepTs = NoTs]
  IN { [w EXCEPT !.mod.state = [base EXCEPT !.food = f, !.lastFoodMoveTs = 0]]
       : f \in spawnFood(body) }

\* resetState: a fresh session; only the stored best score is read back
Snake_resetState(w) ==
  LET fresh == [snake |-> <<>>,
                dir |-> Pos(1, 0),
                queuedDir |-> Pos(1, 0),
                lastFoodMoveTs |-> NoTs,
                food |-> NoState,
                score |-> 0,
                best |-> getBestScore(w.st, SNAKE_KEY),
                lives |-> 3,
                running |-> TRUE,
                paused |-> FALSE,
                tickMs |-> INITIAL_SPEED_MS,
                lastStepTs |-> NoTs]
      w1 == [w EXCEPT !.mod.state = fresh]
  IN { [w2 EXCEPT !.ov = hideOverlay(w2.ov)] : w2 \in Snake_resetSnakePosition(w1) }

Snake_gameOver(w) ==
  LET s  == w.mod.state
      nb == IF s.score > s.best THEN s.score ELSE s.best
  IN [w EXCEPT !.mod.state.running = FALSE,
               !.mod.state.paused = FALSE,
               !.mod.state.best = nb,
               !.st = IF s.score > s.best THEN setBestScore(w.st, SNAKE_KEY, nb) ELSE w.st,
               !.ov = showOverlay(w.ov, "Game Over")]

\* history only: see logLoss
Snake_board(s) == <<>>

Snake_actors(s) == s.snake

\* a loseLife() that starts its timer without clearing the pending one
Snake_loseLife_NoCancel(w) ==
  LET s == w.mod.state
      w1 == [w EXCEPT !.mod.state.lives = Max(0, s.lives - 1)]
      w2 == [w1 EXCEPT !.ov = showOverlay(w.ov, "Life lost"),
                       !.mod.lifeLostTimeoutId = "live",
                       !.mod.timers = @ + 1]
  IN IF ~s.running THEN {w}
     ELSE IF s.lives <= 1 THEN {logLoss(w, Snake_gameOver(w1), Snake_board, Snake_actors)}
     ELSE {logLoss(w, x, Snake_board, Snake_actors) : x \in Snake_resetSnakePosition(w2)}

\* a loseLife() that also clears the score
Snake_loseLife_ClearsScore(w) ==
  LET s == w.mod.state
      w1 == [w EXCEPT !.mod.state.lives = Max(0, s.lives - 1), !.mod.state.score = 0]
      w2 == [w1 EXCEPT !.ov = showOverlay(w.ov, "Life lost"),
                       !.mod.lifeLostTimeoutId = "live",
                       !.mod.timers = IF w.mod.lifeLostTimeoutId # Null THEN @ ELSE @ + 1]
  IN IF ~s.running THEN {w}
     ELSE IF s.lives <= 1 THEN {logLoss(w, Snake_gameOver(w1), Snake_board, Snake_actors)}
     ELSE {logLoss(w, x, Snake_board, Snake_actors) : x \in Snake_resetSnakePosition(w2)}

Snake_loseLife(w) ==
  LET s == w.mod.state
      lives == Max(0, s.lives - 1)
      w1 == [w EXCEPT !.mod.state.lives = lives]
      \* clearTimeout of the pending timer, then setTimeout of a new one
      cancelled == IF w.mod.lifeLostTimeoutId # Null THEN w.mod.timers - 1 ELSE w.mod.timers
      w2 == [w1 EXCEPT !.mod.state.running = TRUE,
                       !.mod.state.paused = FALSE,
                       !.ov = showOverlay(w.ov, "Life lost"),
                       !.mod.lifeLostTimeoutId = "live",
                       !.mod.timers = cancelled + 1]
  IN IF ~s.running THEN {w}
     ELSE IF lives <= 0 THEN {logLoss(w, Snake_gameOver(w1), Snake_board, Snake_actors)}
     ELSE {logLoss(w, x, Snake_board, Snake_actors) : x \in Snake_resetSnakePosition(w2)}

\* eatFoodAt: score + 1, speed-up every SPEEDUP_EVERY points, new food
\* an eatFoodAt that speeds the snake up at every food
Snake_eatFoodAt_AlwaysFaster(w) ==
  LET s     == w.mod.state
      score == s.score + 1
  IN { [w EXCEPT !.mod.state.score = score,
                 !.mod.state.tickMs = Max(MIN_SPEED_MS, s.tickMs - 7),
                 !.mod.state.food = f,
                 !.mod.state.lastFoodMoveTs = 0]
       : f \in spawnFood(s.snake) }

Snake_eatFoodAt(w) ==
  LET s     == w.mod.state
      score == s.score + 1
      tick  == IF score % SPEEDUP_EVERY = 0 THEN Max(MIN_SPEED_MS, s.tickMs - 7)
               ELSE s.tickMs
  IN { [w EXCEPT !.mod.state.score = score,
                 !.mod.state.tickMs = tick,
                 !.mod.state.food = f,
                 !.mod.state.lastFoodMoveTs = 0]
       : f \in spawnFood(s.snake) }

\* a queueDirection() without the reversal test
Snake_queueDirection_NoTest(w, next) ==
  IF ~w.mod.state.running \/ w.mod.state.paused THEN w
  ELSE [w EXCEPT !.mod.state.queuedDir = next]

Snake_queueDirection(w, next) ==
  LET s == w.mod.state
  IN IF ~s.running \/ s.paused \/ isOpposite(next, s.dir) THEN w
     ELSE [w EXCEPT !.mod.state.queuedDir = next]

Snake_togglePause(w) ==
  LET s == w.mod.state
  IN IF ~s.running THEN w
     ELSE IF ~s.paused
          THEN [w EXCEPT !.mod.state.paused = TRUE,
                         !.ov = showOverlay(w.ov, "Paused")]
          ELSE [w EXCEPT !.mod.state.paused = FALSE,
                         !.ov = hideOverlay(w.ov),
                         !.mod.state.lastStepTs = 0]

\* step: one snake tick
Snake_step(w) ==
  LET s        == w.mod.state
      dir      == s.queuedDir
      head     == s.snake[1]
      nextHead == Pos(head.x + dir.x, head.y + dir.y)
      w1       == [w EXCEPT !.mod.state.dir = dir]
      grown    == <<nextHead>> \o s.snake
  IN IF ~InGrid(nextHead) THEN Snake_loseLife(w1)
     ELSE IF \E i \in 1..Len(s.snake) : samePos(s.snake[i], nextHead)
          THEN Snake_loseLife(w1)
     ELSE IF samePos(nextHead, s.food)
          THEN Snake_eatFoodAt([w1 EXCEPT !.mod.state.snake = grown])
     ELSE {[w1 EXCEPT !.mod.state.snake = SubSeq(grown, 1, Len(grown) - 1)]}

\* moveFoodOnce: the food hops to a free neighbour cell, if there is one
Snake_moveFoodOnce(w) ==
  LET s        == w.mod.state
      occupied == SeqToSet(s.snake)
      dirs     == FoodDirs
      ok(i)    == LET np == Pos(s.food.x + dirs[i].x, s.food.y + dirs[i].y)
                  IN InGrid(np) /\ np \notin occupied
      cands    == {i \in 1..4 : ok(i)}
      moved(i) == [w EXCEPT !.mod.state.food = Pos(s.food.x + dirs[i].x, s.food.y + dirs[i].y)]
  IN IF ~s.running \/ s.paused THEN {w}
     ELSE IF s.food = NoState THEN {w}
     ELSE IF cands = {} THEN {w}
     ELSE UNION { IF samePos(moved(i).mod.state.food, s.snake[1])
                  THEN Snake_eatFoodAt(moved(i))
                  ELSE {moved(i)} : i \in cands }

RECURSIVE Snake_steps(_, _)
\* for (i < steps) { step(); if (!state.running) break; }
Snake_steps(ws, n) ==
  IF n = 0 THEN ws
  ELSE UNION { IF x.mod.state.running THEN Snake_steps({x}, n - 1) ELSE {x}
               : x \in UNION { Snake_step(w) : w \in ws } }

RECURSIVE Snake_foodSteps(_, _)
Snake_foodSteps(ws, n) ==
  IF n = 0 THEN ws
  ELSE Snake_foodSteps(UNION { Snake_moveFoodOnce(w) : w \in ws }, n - 1)

\* a catch-up without the cap of 5
stepsDue_Uncapped(elapsed, tickMs) == elapsed \div tickMs

\* Math.min(5, Math.floor(elapsed / state.tickMs))
stepsDue(elapsed, tickMs) == Min(5, elapsed \div tickMs)

\* loop(ts), d ms after the previous clock reading: the callback leaves the
\* browser's queue, the simulation advances, a new callback is requested.
\* The clock readings the state keeps are ages that stop growing at stepCap
\* and foodCap.
Snake_loopWithin(w0, d, stepCap, foodCap) ==
  LET ran == [w0 EXCEPT !.mod.rafPending = @ - 1,
                        !.mod.rafId = IF @ = "live" THEN "spent" ELSE @]
      requeue(x) == [x EXCEPT !.mod.rafId = "live", !.mod.rafPending = @ + 1]
      \* if (!state.lastStepTs) state.lastStepTs = ts; ... steps ...
      stepPart(w) ==
        LET s       == w.mod.state
            elapsed == IF s.lastStepTs = NoTs THEN 0 ELSE s.lastStepTs
            wa      == [w EXCEPT !.mod.state.lastStepTs = elapsed]
        IN IF elapsed >= s.tickMs
           THEN { [x EXCEPT !.mod.state.lastStepTs = 0]
                  : x \in Snake_steps({wa}, stepsDue(elapsed, s.tickMs)) }
           ELSE {wa}
      \* if (!state.lastFoodMoveTs) state.lastFoodMoveTs = ts; ... food hops ...
      foodPart(w) ==
        LET s       == w.mod.state
            elapsed == IF s.lastFoodMoveTs = NoTs THEN 0 ELSE s.lastFoodMoveTs
            wa      == [w EXCEPT !.mod.state.lastFoodMoveTs = elapsed]
        IN IF elapsed >= FOOD_MOVE_MS
           THEN { [x EXCEPT !.mod.state.lastFoodMoveTs = 0]
                  : x \in Snake_foodSteps({wa}, Min(3, elapsed \div FOOD_MOVE_MS)) }
           ELSE {wa}
  IN IF w0.mod.state = NoState THEN {ran}
     ELSE LET s0   == w0.mod.state
              aged == [ran EXCEPT
                         !.mod.state.lastStepTs = Age(s0.lastStepTs, d, stepCap),
                         !.mod.state.lastFoodMoveTs = Age(s0.lastFoodMoveTs, d, foodCap)]
          IN IF s0.running /\ ~s0.paused
             THEN { requeue(y) : y \in UNION { foodPart(x) : x \in stepPart(aged) } }
             ELSE {requeue(aged)}

Snake_loop(w0, d) == Snake_loopWithin(w0, d, StepAgeCap, FoodAgeCap)

\* an attachListeners() without the  if (runningAttached) return;  guard
attachListeners_Unguarded(m) ==
  [m EXCEPT !.runningAttached = TRUE, !.listeners = @ + 1]

\* attachListeners() of every game: one more keydown listener on window,
\* unless this module's listener is attached already
attachListeners(m) ==
  IF m.runningAttached THEN m
  ELSE [m EXCEPT !.runningAttached = TRUE, !.listeners = @ + 1]

\* detachListeners() of every game: removes the listener it attached, if any
detachListeners(m) ==
  IF ~m.runningAttached THEN m
  ELSE [m EXCEPT !.runningAttached = FALSE, !.listeners = @ - 1]

Snake_attachListeners(w) == [w EXCEPT !.mod = attachListeners(@)]

Snake_detachListeners(w) == [w EXCEPT !.mod = detachListeners(@)]

\* start(): listeners, fresh session, exactly one frame callback requested
Snake_start(w) ==
  LET cancelled(x) == IF x.mod.rafId = "live" THEN x.mod.rafPending - 1 ELSE x.mod.rafPending
  IN { [x EXCEPT !.mod.rafPending = cancelled(x) + 1, !.mod.rafId = "live"]
       : x \in Snake_resetState(Snake_attachListeners(w)) }

\* stop(): cancel the frame callback and the life-lost timer, detach, drop state
Snake_stop(w) ==
  LET m == w.mod
  IN [w EXCEPT !.mod.rafPending = IF m.rafId = "live" THEN @ - 1 ELSE @,
               !.mod.rafId = Null,
               !.mod.runningAttached = FALSE,
            !.mod.listeners = detachListeners(w.mod).listeners,
               !.mod.timers = IF m.lifeLostTimeoutId # Null THEN @ - 1 ELSE @,
               !.mod.lifeLostTimeoutId = Null,
               !.ov.hidden = TRUE,
               !.mod.state = NoState]

\* the callback given to setTimeout in loseLife
Snake_lifeLostTimeout(w) ==
  LET s == w.mod.state
      w1 == [w EXCEPT !.mod.timers = @ - 1, !.mod.lifeLostTimeoutId = Null]
  IN IF s # NoState /\ s.running /\ ~s.paused
     THEN [w1 EXCEPT !.ov = hideOverlay(w.ov)]
     ELSE w1

(***************************************************************************)
(* PAC-MAN  (src/pacman.js)                                                *)
(***************************************************************************)
PACMAN_KEY == "pacman_best_score"

\* FPS_DT_LIMIT = 0.05 s, in ms
FPS_DT_LIMIT == 50

\* moveAccum is kept in units of 1/ACCUM_ONE cell, so that dt (ms) * speed is
\* an integer: pac.speed 7.2 cells/s = 144 units/ms, ghost i 4.3 + 0.15 i
\* cells/s = 86 + 3 i units/ms
ACCUM_ONE == 20000
PAC_SPEED == 144
GHOST_SPEED_BASE == 86
GHOST_SPEED_STEP == 3
FRIGHTENED_MS == 6500

\* frames and direction key presses of one life; random substitutions of the
\* ghosts in one session
MaxPacFrames == 36
MaxRandom == 0
MaxPacTurns == 1

\* a gap long enough for the dt clamp to bind
PacStallMs == 2 * FPS_DT_LIMIT
PacFrameMs == {FPS_DT_LIMIT, PacStallMs}

DIRS == [left |-> Pos(-1, 0), right |-> Pos(1, 0), up |-> Pos(0, -1),
         down |-> Pos(0, 1), none |-> Pos(0, 0)]

MAZE ==
  <<
    <<"#","#","#","#","#","#","#","#","#","#","#","#","#","#","#","#","#","#","#","#","#">>,
    <<"#",".",".",".",".",".",".",".",".",".","#",".",".",".",".",".",".",".",".",".","#">>,
    <<"#",".","#","#","#",".","#","#","#",".","#",".","#","#","#",".","#","#","#",".","#">>,
    <<"#","o","#","#","#",".","#","#","#",".","#",".","#","#","#",".","#","#","#","o","#">>,
    <<"#",".",".",".",".",".",".",".",".",".",".",".",".",".",".",".",".",".",".",".","#">>,
    <<"#",".","#","#","#",".","#",".","#","#","#","#","#",".","#",".","#","#","#",".","#">>,
    <<"#",".",".",".",".",".","#",".",".",".","#",".",".",".","#",".",".",".",".",".","#">>,
    <<"#","#","#","#","#",".","#","#","#"," ","#"," ","#","#","#",".","#","#","#","#","#">>,
    <<" "," "," "," ","#",".","#"," "," "," ","G"," "," "," ","#",".","#"," "," "," "," ">>,
    <<"#","#","#","#","#",".","#"," ","#","#"," ","#","#"," ","#",".","#","#","#","#","#">>,
    <<"#",".",".",".",".",".",".",".",".",".","#",".",".",".",".",".",".",".",".",".","#">>,
    <<"#",".","#","#","#",".","#","#","#",".","#",".","#","#","#",".","#","#","#",".","#">>,
    <<"#","o",".",".","#",".",".",".",".",".","P",".",".",".",".",".","#",".",".","o","#">>,
    <<"#","#","#",".","#",".","#",".","#","#","#","#","#",".","#",".","#",".","#","#","#">>,
    <<"#",".",".",".",".",".","#",".",".",".","#",".",".",".","#",".",".",".",".",".","#">>,
    <<"#",".","#","#","#","#","#","#","#","#","#"," ","#","#","#","#","#","#","#","#","#">>,
    <<"#",".",".",".",".",".",".",".",".",".",".",".",".",".",".",".",".",".",".",".","#">>,
    <<"#","#","#","#","#","#","#","#","#","#","#","#","#","#","#","#","#","#","#","#","#">>
  >>

MazeRows == Len(MAZE)
MazeCols == Len(MAZE[1])

\* parseMaze: the grid is MAZE with the P and G cells blanked; coordinates
\* are 0-based as in the source
MazeChar(x, y) == MAZE[y + 1][x + 1]

MazeCells == {Pos(x, y) : x \in 0..(MazeCols - 1), y \in 0..(MazeRows - 1)}

\* posKey(x, y) is the string "x,y"; the model uses an injective number
posKey(x, y) == y * 100 + x

ParsedPellets == {posKey(c.x, c.y) : c \in {c \in MazeCells : MazeChar(c.x, c.y) = "."}}

ParsedPower == {posKey(c.x, c.y) : c \in {c \in MazeCells : MazeChar(c.x, c.y) = "o"}}

PacStart ==
  IF \E c \in MazeCells : MazeChar(c.x, c.y) = "P"
  THEN CHOOSE c \in MazeCells : MazeChar(c.x, c.y) = "P"
  ELSE Pos(1, 1)

GhostGate ==
  IF \E c \in MazeCells : MazeChar(c.x, c.y) = "G"
  THEN CHOOSE c \in MazeCells : MazeChar(c.x, c.y) = "G"
  ELSE Pos(MazeCols \div 2, MazeRows \div 2)

isWall(x, y) ==
  IF y < 0 \/ y >= MazeRows THEN TRUE
  ELSE IF x < 0 \/ x >= MazeCols THEN TRUE
  ELSE MazeChar(x, y) = "#"

canMove(x, y) == ~isWall(x, y)

wrapTunnel(cols, x) == IF x < 0 THEN cols - 1 ELSE IF x >= cols THEN 0 ELSE x

\* the ghost pushed by resetState / placed by resetActorsPositions
GhostAtGate(i) ==
  [id |-> i, x |-> GhostGate.x + (i % 2), y |-> GhostGate.y + (i \div 2),
   dir |-> DIRS.left, moveAccum |-> 0,
   respawnX |-> GhostGate.x, respawnY |-> GhostGate.y]

Pac_resetState(w) ==
  [w EXCEPT !.mod.state =
              [pellets |-> ParsedPellets,
               power |-> ParsedPower,
               score |-> 0,
               best |-> getBestScore(w.st, PACMAN_KEY),
               lives |-> 3,
               running |-> TRUE,
               paused |-> FALSE,
               lastTs |-> NoTs,
               frightenedUntil |-> 0,
               pac |-> [x |-> PacStart.x, y |-> PacStart.y, dir |-> DIRS.left,
                        wish |-> DIRS.left, moveAccum |-> 0],
               ghosts |-> [i \in 0..3 |-> GhostAtGate(i)]],
            !.ov = hideOverlay(w.ov)]

Pac_resetActorsPositions(w) ==
  [w EXCEPT !.mod.state.pac = [x |-> PacStart.x, y |-> PacStart.y, dir |-> DIRS.left,
                               wish |-> DIRS.left, moveAccum |-> 0],
            !.mod.state.ghosts = [i \in 0..3 |-> GhostAtGate(i)],
            !.mod.state.frightenedUntil = 0,
            !.mod.state.lastTs = NoTs]

\* a gameOver() that shows the overlay but leaves the run running
Pac_gameOver_KeepsRunning(w, win) ==
  LET s  == w.mod.state
      nb == IF s.score > s.best THEN s.score ELSE s.best
  IN [w EXCEPT !.mod.state.best = nb,
               !.st = IF s.score > s.best THEN setBestScore(w.st, PACMAN_KEY, nb) ELSE w.st,
               !.ov = showOverlay(w.ov, IF win THEN "You Win" ELSE "Game Over")]

Pac_gameOver(w, win) ==
  LET s  == w.mod.state
      nb == IF s.score > s.best THEN s.score ELSE s.best
  IN [w EXCEPT !.mod.state.running = FALSE,
               !.mod.state.paused = FALSE,
               !.mod.state.best = nb,
               !.st = IF s.score > s.best THEN setBestScore(w.st, PACMAN_KEY, nb) ELSE w.st,
               !.ov = showOverlay(w.ov, IF win THEN "You Win" ELSE "Game Over")]

\* history only: see logLoss
Pac_board(s) == <<s.pellets, s.power>>

Pac_actors(s) == [pac |-> s.pac, ghosts |-> s.ghosts, frightenedUntil |-> s.frightenedUntil]

Pac_loseLife(w) ==
  LET s == w.mod.state
      lives == Max(0, s.lives - 1)
      w1 == [w EXCEPT !.mod.state.lives = lives]
      cancelled == IF w.mod.lifeLostTimeoutId # Null THEN w.mod.timers - 1 ELSE w.mod.timers
      w2 == [w1 EXCEPT !.ov = showOverlay(w.ov, "Life lost"),
                       !.mod.lifeLostTimeoutId = "live",
                       !.mod.timers = cancelled + 1]
  IN IF ~s.running THEN w
     ELSE IF lives <= 0 THEN logLoss(w, Pac_gameOver(w1, FALSE), Pac_board, Pac_actors)
     ELSE logLoss(w, Pac_resetActorsPositions(w2), Pac_board, Pac_actors)

Pac_setPaused(w, paused) ==
  IF paused
  THEN [w EXCEPT !.mod.state.paused = TRUE, !.ov = showOverlay(w.ov, "Paused")]
  ELSE [w EXCEPT !.mod.state.paused = FALSE, !.ov = hideOverlay(w.ov),
                 !.mod.state.lastTs = 0]

\* tryTurn(entity, wishDir): the direction the entity has afterwards
tryTurn(entity, wishDir) ==
  IF canMove(wrapTunnel(MazeCols, entity.x + wishDir.x), entity.y + wishDir.y)
  THEN wishDir
  ELSE entity.dir

RECURSIVE Pac_stepPacLoop(_)
\* the while (p.moveAccum >= 1) loop of stepPac
Pac_stepPacLoop(w) ==
  LET s  == w.mod.state
      p  == s.pac
      d1 == IF p.wish # DIRS.none THEN tryTurn(p, p.wish) ELSE p.dir
      nx == wrapTunnel(MazeCols, p.x + d1.x)
      ny == p.y + d1.y
      k  == posKey(nx, ny)
      accum == p.moveAccum - ACCUM_ONE
      atePellet == k \in s.pellets
      atePower  == k \in s.power
      score == s.score + (IF atePellet THEN 10 ELSE 0) + (IF atePower THEN 50 ELSE 0)
      moved == [w EXCEPT !.mod.state.pac = [p EXCEPT !.moveAccum = accum, !.dir = d1,
                                                     !.x = nx, !.y = ny],
                         !.mod.state.pellets = @ \ {k},
                         !.mod.state.power = @ \ {k},
                         !.mod.state.score = score,
                         !.mod.state.frightenedUntil =
                            IF atePower THEN FRIGHTENED_MS ELSE @]
  IN IF p.moveAccum < ACCUM_ONE THEN w
     ELSE IF ~canMove(nx, ny)
          THEN [w EXCEPT !.mod.state.pac = [p EXCEPT !.moveAccum = accum, !.dir = DIRS.none]]
     ELSE IF moved.mod.state.pellets = {} /\ moved.mod.state.power = {}
          THEN Pac_gameOver(moved, TRUE)
     ELSE Pac_stepPacLoop(moved)

Pac_stepPac(w, dt) ==
  Pac_stepPacLoop([w EXCEPT !.mod.state.pac.moveAccum = @ + dt * PAC_SPEED])

\* options that keep the direction the ghost came from
GhostOptions_AllowsReverse(g) ==
  LET order == <<DIRS.left, DIRS.right, DIRS.up, DIRS.down>>
      ok(d) == canMove(wrapTunnel(MazeCols, g.x + d.x), g.y + d.y)
  IN SelectSeq(order, ok)

\* chooseGhostDir(g): sub says that Math.random() < 0.15, pick is the value
\* of randInt(0, options.length - 1)
GhostOptions(g) ==
  LET order == <<DIRS.left, DIRS.right, DIRS.up, DIRS.down>>
      ok(d) == /\ ~(g.dir.x = -d.x /\ g.dir.y = -d.y)
               /\ canMove(wrapTunnel(MazeCols, g.x + d.x), g.y + d.y)
  IN SelectSeq(order, ok)

Abs(n) == IF n < 0 THEN -n ELSE n

\* a chooseGhostDir whose comparison is score <= bestScore: the last of the
\* equally good options wins
chooseGhostDir_LastTie(s, g, sub, pick) ==
  LET options == GhostOptions(g)
      frightened == s.frightenedUntil > 0
      sc(d) == LET dist == Abs(wrapTunnel(MazeCols, g.x + d.x) - s.pac.x)
                           + Abs(g.y + d.y - s.pac.y)
               IN IF frightened THEN -dist ELSE dist
      bestIdx == CHOOSE i \in 1..Len(options) :
                   /\ \A j \in 1..Len(options) : sc(options[i]) <= sc(options[j])
                   /\ \A j \in (i + 1)..Len(options) : sc(options[j]) > sc(options[i])
  IN IF Len(options) = 0 THEN Pos(-g.dir.x, -g.dir.y)
     ELSE IF sub THEN options[(pick % Len(options)) + 1]
     ELSE options[bestIdx]

chooseGhostDir(s, g, sub, pick) ==
  LET options == GhostOptions(g)
      frightened == s.frightenedUntil > 0
      sc(d) == LET dist == Abs(wrapTunnel(MazeCols, g.x + d.x) - s.pac.x)
                           + Abs(g.y + d.y - s.pac.y)
               IN IF frightened THEN -dist ELSE dist
      \* the first option with the smallest score
      bestIdx == CHOOSE i \in 1..Len(options) :
                   /\ \A j \in 1..Len(options) : sc(options[i]) <= sc(options[j])
                   /\ \A j \in 1..(i - 1) : sc(options[j]) > sc(options[i])
  IN IF Len(options) = 0 THEN Pos(-g.dir.x, -g.dir.y)
     ELSE IF sub THEN options[(pick % Len(options)) + 1]
     ELSE options[bestIdx]

\* every direction chooseGhostDir can return when the random test
\* Math.random() < 0.15 comes out as one of subs
GhostChoices(s, g, subs) ==
  { chooseGhostDir(s, g, sub, pick) : sub \in subs, pick \in 0..3 }

RECURSIVE Pac_stepGhostLoop(_, _, _)
\* the while (g.moveAccum >= 1) loop for one ghost: the ghosts it can end as
Pac_stepGhostLoop(s, g, subs) ==
  LET accum == g.moveAccum - ACCUM_ONE
      turned == IF (g.x + g.y) % 2 = 0 THEN GhostChoices(s, g, subs) ELSE {g.dir}
      after(d) ==
        LET nx == wrapTunnel(MazeCols, g.x + d.x)
            ny == g.y + d.y
            g1 == [g EXCEPT !.moveAccum = accum, !.dir = d]
        IN IF ~canMove(nx, ny)
           THEN { [g1 EXCEPT !.dir = d2] : d2 \in GhostChoices(s, g1, subs) }
           ELSE Pac_stepGhostLoop(s, [g1 EXCEPT !.x = nx, !.y = ny], subs)
  IN IF g.moveAccum < ACCUM_ONE THEN {g}
     ELSE UNION { after(d) : d \in turned }

GhostSpeed(i) == GHOST_SPEED_BASE + GHOST_SPEED_STEP * i

\* stepGhosts(dt): every ghost in turn; the ghosts do not read each other
Pac_stepGhosts(w, dt, subs) ==
  LET s == w.mod.state
      outcomes(i) ==
        Pac_stepGhostLoop(s, [s.ghosts[i] EXCEPT !.moveAccum = @ + dt * GhostSpeed(i)], subs)
  IN { [w EXCEPT !.mod.state.ghosts =
                   [i \in 0..3 |-> IF i = 0 THEN g0 ELSE IF i = 1 THEN g1
                                   ELSE IF i = 2 THEN g2 ELSE g3]]
       : g0 \in outcomes(0), g1 \in outcomes(1), g2 \in outcomes(2), g3 \in outcomes(3) }

\* handleCollisions: the first ghost on Pac-Man's cell is eaten (frightened)
\* or costs a life
Pac_handleCollisions(w) ==
  LET s == w.mod.state
      frightened == s.frightenedUntil > 0
      hits == {i \in 0..3 : s.ghosts[i].x = s.pac.x /\ s.ghosts[i].y = s.pac.y}
      gi == CHOOSE i \in hits : \A j \in hits : i <= j
      g  == s.ghosts[gi]
  IN IF hits = {} THEN w
     ELSE IF frightened
          THEN [w EXCEPT !.mod.state.score = @ + 200,
                         !.mod.state.ghosts[gi] =
                            [g EXCEPT !.x = g.respawnX, !.y = g.respawnY,
                                      !.dir = DIRS.left, !.moveAccum = 0]]
     ELSE Pac_loseLife(w)

\* loop(ts), d ms after the previous clock reading
Pac_loop(w0, d, subs) ==
  LET ran == [w0 EXCEPT !.mod.rafPending = @ - 1,
                        !.mod.rafId = IF @ = "live" THEN "spent" ELSE @]
      requeue(x) == [x EXCEPT !.mod.rafId = "live", !.mod.rafPending = @ + 1]
  IN IF w0.mod.state = NoState THEN {ran}
     ELSE LET s0   == w0.mod.state
              aged == [ran EXCEPT
                         !.mod.state.lastTs = Age(s0.lastTs, d, FPS_DT_LIMIT),
                         !.mod.state.frightenedUntil = Max(0, @ - d)]
              elapsed == IF aged.mod.state.lastTs = NoTs THEN 0 ELSE aged.mod.state.lastTs
              dt   == Min(Max(elapsed, 0), FPS_DT_LIMIT)
              w1   == [aged EXCEPT !.mod.state.lastTs = 0]
          IN IF ~s0.running THEN {requeue(aged)}
             ELSE IF s0.paused THEN {requeue(w1)}
             ELSE { requeue(Pac_handleCollisions(x))
                    : x \in Pac_stepGhosts(Pac_stepPac(w1, dt), dt, subs) }

Pac_start(w) ==
  LET x == Pac_resetState([w EXCEPT !.mod = attachListeners(@)])
      cancelled == IF x.mod.rafId = "live" THEN x.mod.rafPending - 1 ELSE x.mod.rafPending
  IN [x EXCEPT !.mod.rafPending = cancelled + 1, !.mod.rafId = "live"]

Pac_stop(w) ==
  LET m == w.mod
  IN [w EXCEPT !.mod.rafPending = IF m.rafId = "live" THEN @ - 1 ELSE @,
               !.mod.rafId = Null,
               !.mod.runningAttached = FALSE,
            !.mod.listeners = detachListeners(w.mod).listeners,
               !.mod.timers = IF m.lifeLostTimeoutId # Null THEN @ - 1 ELSE @,
               !.mod.lifeLostTimeoutId = Null,
               !.ov.hidden = TRUE,
               !.mod.state = NoState]

Pac_lifeLostTimeout(w) ==
  LET s == w.mod.state
      w1 == [w EXCEPT !.mod.timers = @ - 1, !.mod.lifeLostTimeoutId = Null]
  IN IF s # NoState /\ s.running /\ ~s.paused
     THEN [w1 EXCEPT !.ov = hideOverlay(w.ov)]
     ELSE w1

(***************************************************************************)
(* BREAKOUT  (src/unnamed/part_002)                                        *)
(*                                                                         *)
(* Lengths are in 1/100 px.  A velocity is kept as the displacement of one *)
(* full step (dt = MAX_DT = 1/30 s), so 360 px/s is 1200.  The frame gaps  *)
(* of the model all reach the MAX_DT clamp, or are 0 (first frame).        *)
(***************************************************************************)
BREAKOUT_KEY == "breakout_best_score"

PX == 100

\* the canvas element handed to start()
CANVAS_W == 216
CANVAS_H == 122

PADDLE_W == 84
PADDLE_H == 12
BALL_R == 6

\* the wall of bricks, scaled down from 10 x 6
BRICK_COLS == 4
BRICK_ROWS == 1
BRICK_GAP == 6
BRICK_H == 18
BRICK_TOP == 54

\* MAX_DT = 1/30 s, in ms rounded up: every gap of at least this is clamped
MAX_DT_MS == 34
BrkFrameMs == {MAX_DT_MS, 3 * MAX_DT_MS}

\* paddle.speed 420 px/s and ball.speed 360 px/s as displacements per step
PADDLE_STEP == 1400
BALL_STEP == 1200

\* frames of one life that step the ball, and key events of one life
MaxBrkFrames == 7
MaxBrkKeys == 2

\* "Life lost" timeouts pending at once
MaxBrkTimers == 1

clamp(n, lo, hi) == Max(lo, Min(hi, n))

\* buildBricks: brick i (0-based, row-major) as a rectangle
BrickW == (CANVAS_W * PX - 48 * PX - (BRICK_COLS - 1) * BRICK_GAP * PX) \div BRICK_COLS

BrickStartX == (CANVAS_W * PX - (BrickW * BRICK_COLS + (BRICK_COLS - 1) * BRICK_GAP * PX)) \div 2

BrickCount == BRICK_COLS * BRICK_ROWS

BrickRect(i) ==
  [x |-> BrickStartX + (i % BRICK_COLS) * (BrickW + BRICK_GAP * PX),
   y |-> BRICK_TOP * PX + (i \div BRICK_COLS) * (BRICK_H + BRICK_GAP) * PX,
   w |-> BrickW,
   h |-> BRICK_H * PX]

PaddleY == CANVAS_H * PX - 36 * PX

Brk_resetBallOnPaddle(w) ==
  [w EXCEPT !.mod.state.ball =
      [x |-> w.mod.state.paddle.x + (PADDLE_W * PX) \div 2,
       y |-> PaddleY - BALL_R * PX - PX,
       vx |-> 0, vy |-> 0, attached |-> TRUE]]

Brk_resetState(w) ==
  Brk_resetBallOnPaddle(
    [w EXCEPT !.mod.state =
                [running |-> TRUE,
                 paused |-> FALSE,
                 lastTs |-> NoTs,
                 score |-> 0,
                 best |-> getBestScore(w.st, BREAKOUT_KEY),
                 lives |-> 3,
                 input |-> [left |-> FALSE, right |-> FALSE],
                 paddle |-> [x |-> (CANVAS_W * PX) \div 2 - (PADDLE_W * PX) \div 2],
                 ball |-> [x |-> (CANVAS_W * PX) \div 2, y |-> CANVAS_H * PX - 50 * PX,
                           vx |-> 0, vy |-> 0, attached |-> TRUE],
                 bricks |-> [i \in 0..(BrickCount - 1) |-> TRUE]],
              !.ov = hideOverlay(w.ov)])

Brk_setPaused(w, paused) ==
  IF paused
  THEN [w EXCEPT !.mod.state.paused = TRUE, !.ov = showOverlay(w.ov, "Paused")]
  ELSE [w EXCEPT !.mod.state.paused = FALSE, !.ov = hideOverlay(w.ov),
                 !.mod.state.lastTs = 0]

Brk_gameOver(w, win) ==
  LET s  == w.mod.state
      nb == IF s.score > s.best THEN s.score ELSE s.best
  IN [w EXCEPT !.mod.state.running = FALSE,
               !.mod.state.paused = FALSE,
               !.mod.state.best = nb,
               !.st = IF s.score > s.best THEN setBestScore(w.st, BREAKOUT_KEY, nb) ELSE w.st,
               !.ov = showOverlay(w.ov, IF win THEN "You Win" ELSE "Game Over")]

\* loseLife: its timeout is not kept in any variable, so nothing clears it
\* history only: see logLoss
Brk_board(s) == s.bricks

Brk_actors(s) == s.ball

\* a loseLife() that takes two lives
Brk_loseLife_TakesTwo(w) ==
  LET lives == Max(0, w.mod.state.lives - 2)
      w1 == [w EXCEPT !.mod.state.lives = lives]
  IN IF lives <= 0 THEN logLoss(w, Brk_gameOver(w1, FALSE), Brk_board, Brk_actors)
     ELSE logLoss(w, Brk_resetBallOnPaddle([w1 EXCEPT !.ov = showOverlay(w.ov, "Life lost"),
                                                      !.mod.timers = @ + 1]),
                  Brk_board, Brk_actors)

\* a loseLife() that rebuilds the brick wall
Brk_loseLife_Rebuilds(w) ==
  LET lives == Max(0, w.mod.state.lives - 1)
      w1 == [w EXCEPT !.mod.state.lives = lives,
                      !.mod.state.bricks = [i \in DOMAIN w.mod.state.bricks |-> TRUE]]
  IN IF lives <= 0 THEN logLoss(w, Brk_gameOver(w1, FALSE), Brk_board, Brk_actors)
     ELSE logLoss(w, Brk_resetBallOnPaddle([w1 EXCEPT !.ov = showOverlay(w.ov, "Life lost"),
                                                      !.mod.timers = @ + 1]),
                  Brk_board, Brk_actors)

Brk_loseLife(w) ==
  LET lives == Max(0, w.mod.state.lives - 1)
      w1 == [w EXCEPT !.mod.state.lives = lives]
  IN IF lives <= 0 THEN logLoss(w, Brk_gameOver(w1, FALSE), Brk_board, Brk_actors)
     ELSE logLoss(w, Brk_resetBallOnPaddle([w1 EXCEPT !.ov = showOverlay(w.ov, "Life lost"),
                                                      !.mod.timers = @ + 1]),
                  Brk_board, Brk_actors)

\* launchBall: Math.random() picks an angle within 0.3 rad of straight up;
\* the model draws the two ends and the middle of that range
\* (360 sin 0.3 = 106.4 px/s, 360 cos 0.3 = 343.9 px/s)
LaunchVelocities ==
  { [vx |-> -355, vy |-> -1146], [vx |-> 0, vy |-> -BALL_STEP], [vx |-> 355, vy |-> -1146] }

Brk_launchBall(w) ==
  IF ~w.mod.state.ball.attached THEN {w}
  ELSE { [w EXCEPT !.mod.state.ball.vx = v.vx,
                   !.mod.state.ball.vy = v.vy,
                   !.mod.state.ball.attached = FALSE] : v \in LaunchVelocities }

circleRectHit(cx, cy, r, rect) ==
  LET closestX == clamp(cx, rect.x, rect.x + rect.w)
      closestY == clamp(cy, rect.y, rect.y + rect.h)
      dx == cx - closestX
      dy == cy - closestY
  IN dx * dx + dy * dy <= r * r

\* the paddle bounce: angle = -pi/2 + clamp(hit, -1, 1) * 0.95 at the ball's
\* speed.  hit is rounded to quarters; entry k + 5 is 1200 * (sin, cos) of
\* 0.95 * k / 4
BounceSin == <<-976, -784, -549, -282, 0, 282, 549, 784, 976>>
BounceCos == <<698, 908, 1067, 1166, 1200, 1166, 1067, 908, 698>>

HitQuarter(bx, px) ==
  LET half == (PADDLE_W * PX) \div 2
      offs == bx - (px + half)
  IN clamp((offs * 8 + half) \div (2 * half), -4, 4)

\* the brick loop of step: the first alive brick the ball touches dies
Brk_hitBricks(w, dt) ==
  LET s  == w.mod.state
      b  == s.ball
      alive == {i \in 0..(BrickCount - 1) : s.bricks[i]}
      touched == {i \in alive : circleRectHit(b.x, b.y, BALL_R * PX, BrickRect(i))}
      i0 == CHOOSE i \in touched : \A j \in touched : i <= j
      br == BrickRect(i0)
      prevX == b.x - b.vx * dt
      prevY == b.y - b.vy * dt
      wasLeft  == prevX < br.x
      wasRight == prevX > br.x + br.w
      flipX == wasLeft \/ wasRight
      bounced == [w EXCEPT !.mod.state.bricks[i0] = FALSE,
                           !.mod.state.score = @ + 50,
                           !.mod.state.ball.vx = IF flipX THEN -b.vx ELSE b.vx,
                           !.mod.state.ball.vy = IF flipX THEN b.vy ELSE -b.vy]
  IN IF alive = {} THEN Brk_gameOver(w, TRUE)
     ELSE IF touched = {} THEN w
     ELSE bounced

\* step(dt), dt in {0, 1} full steps
Brk_step(w, dt) ==
  LET s   == w.mod.state
      dir == (IF s.input.right THEN 1 ELSE 0) - (IF s.input.left THEN 1 ELSE 0)
      px  == clamp(s.paddle.x + dir * PADDLE_STEP * dt, 10 * PX,
                   CANVAS_W * PX - 10 * PX - PADDLE_W * PX)
      r   == BALL_R * PX
      b   == s.ball
      x1  == b.x + b.vx * dt
      y1  == b.y + b.vy * dt
      hitL == x1 - r < 0
      x2  == IF hitL THEN r ELSE x1
      vx2 == IF hitL THEN Abs(b.vx) ELSE b.vx
      hitR == x2 + r > CANVAS_W * PX
      x3  == IF hitR THEN CANVAS_W * PX - r ELSE x2
      vx3 == IF hitR THEN -Abs(vx2) ELSE vx2
      hitT == y1 - r < 0
      y3  == IF hitT THEN r ELSE y1
      vy3 == IF hitT THEN Abs(b.vy) ELSE b.vy
      moved == [w EXCEPT !.mod.state.paddle.x = px,
                         !.mod.state.ball = [b EXCEPT !.x = x3, !.y = y3, !.vx = vx3, !.vy = vy3]]
      onPaddle == vy3 > 0 /\ circleRectHit(x3, y3, r, [x |-> px, y |-> PaddleY,
                                                       w |-> PADDLE_W * PX, h |-> PADDLE_H * PX])
      k == HitQuarter(x3, px)
      paddled == IF onPaddle
                 THEN [moved EXCEPT !.mod.state.ball.y = PaddleY - r - PX \div 2,
                                    !.mod.state.ball.vx = BounceSin[k + 5],
                                    !.mod.state.ball.vy = -BounceCos[k + 5]]
                 ELSE moved
  IN IF b.attached
     THEN [w EXCEPT !.mod.state.paddle.x = px,
                    !.mod.state.ball.x = px + (PADDLE_W * PX) \div 2,
                    !.mod.state.ball.y = PaddleY - r - PX]
     ELSE IF y3 - r > CANVAS_H * PX THEN Brk_loseLife(moved)
     ELSE Brk_hitBricks(paddled, dt)

Brk_loop(w0, d) ==
  LET ran == [w0 EXCEPT !.mod.rafPending = @ - 1,
                        !.mod.rafId = IF @ = "live" THEN "spent" ELSE @]
      requeue(x) == [x EXCEPT !.mod.rafId = "live", !.mod.rafPending = @ + 1]
  IN IF w0.mod.state = NoState THEN ran
     ELSE LET s0   == w0.mod.state
              aged == [ran EXCEPT !.mod.state.lastTs = Age(s0.lastTs, d, MAX_DT_MS)]
              elapsed == IF aged.mod.state.lastTs = NoTs THEN 0 ELSE aged.mod.state.lastTs
              dt   == IF elapsed >= MAX_DT_MS THEN 1 ELSE 0
              w1   == [aged EXCEPT !.mod.state.lastTs = 0]
          IN IF ~s0.running THEN requeue(aged)
             ELSE IF s0.paused THEN requeue(w1)
             ELSE requeue(Brk_step(w1, dt))

Brk_start(w) ==
  LET x == Brk_resetState([w EXCEPT !.mod = attachListeners(@)])
      cancelled == IF x.mod.rafId = "live" THEN x.mod.rafPending - 1 ELSE x.mod.rafPending
  IN [x EXCEPT !.mod.rafPending = cancelled + 1, !.mod.rafId = "live"]

\* a stop() that only removes the key listeners
Brk_stop_OnlyDetaches(w) == [w EXCEPT !.mod = detachListeners(@)]

Brk_stop(w) ==
  [w EXCEPT !.mod.rafPending = IF w.mod.rafId = "live" THEN @ - 1 ELSE @,
            !.mod.rafId = Null,
            !.mod.runningAttached = FALSE,
            !.mod.listeners = detachListeners(w.mod).listeners,
            !.ov.hidden = TRUE,
            !.mod.state = NoState]

Brk_lifeLostTimeout(w) ==
  LET s == w.mod.state
      w1 == [w EXCEPT !.mod.timers = @ - 1]
  IN IF s # NoState /\ s.running /\ ~s.paused
     THEN [w1 EXCEPT !.ov = hideOverlay(w.ov)]
     ELSE w1

(***************************************************************************)
(* TETRIS  (src/unnamed/part_001)                                          *)
(*                                                                         *)
(* A board row is a sequence of BOOLEAN (the source stores a colour or     *)
(* null); row r of the source is board[r + 1].  state.queue holds the      *)
(* kinds not yet dealt from the current bag: the place refillBag's shuffle *)
(* gave each of them is drawn when the piece is dealt.                     *)
(***************************************************************************)
TETRIS_KEY == "tetris_best_score"

\* the well, scaled down from 10 x 20
COLS == 4
ROWS == 2

\* pieces dealt in one session
MaxPieces == 3

\* getDropIntervalMs: base and min
DROP_BASE_MS == 800
DROP_MIN_MS == 90
DROP_LEVEL_MS == 55

\* gaps between frame callbacks: half a drop interval, or a whole one
TetFrameMs == {DROP_BASE_MS \div 2, DROP_BASE_MS}

PIECES ==
  [I |-> << <<0, 0, 0, 0>>, <<1, 1, 1, 1>>, <<0, 0, 0, 0>>, <<0, 0, 0, 0>> >>,
   O |-> << <<1, 1>>, <<1, 1>> >>,
   T |-> << <<0, 1, 0>>, <<1, 1, 1>>, <<0, 0, 0>> >>,
   S |-> << <<0, 1, 1>>, <<1, 1, 0>>, <<0, 0, 0>> >>,
   Z |-> << <<1, 1, 0>>, <<0, 1, 1>>, <<0, 0, 0>> >>,
   J |-> << <<1, 0, 0>>, <<1, 1, 1>>, <<0, 0, 0>> >>,
   L |-> << <<0, 0, 1>>, <<1, 1, 1>>, <<0, 0, 0>> >>]

BAG == <<"I", "O", "T", "S", "Z", "J", "L">>

\* a rotateCW that loses the cell it writes to the top left corner
rotateCW_DropsCorner(mat) ==
  LET h == Len(mat)
      w == Len(mat[1])
  IN [x \in 1..w |-> [c \in 1..h |-> IF x = 1 /\ c = 1 THEN 0 ELSE mat[h + 1 - c][x]]]

\* rotateCW: out[x][h - 1 - y] = mat[y][x]
rotateCW(mat) ==
  LET h == Len(mat)
      w == Len(mat[1])
  IN [x \in 1..w |-> [c \in 1..h |-> mat[h + 1 - c][x]]]

makeBoard == [r \in 1..ROWS |-> [c \in 1..COLS |-> FALSE]]

\* the filled cells of a matrix, 0-based
FilledCells(m) ==
  {c \in {Pos(x, y) : x \in 0..(Len(m[1]) - 1), y \in 0..(Len(m) - 1)} :
     m[c.y + 1][c.x + 1] = 1}

\* collides, in a well of rows x cols cells
collidesIn(rows, cols, board, cells, px, py) ==
  \E c \in FilledCells(cells) :
    LET bx == px + c.x
        by == py + c.y
    IN \/ bx < 0 \/ bx >= cols \/ by >= rows
       \/ (by >= 0 /\ board[by + 1][bx + 1])

collides(board, cells, px, py) == collidesIn(ROWS, COLS, board, cells, px, py)

\* merge, in a well of rows x cols cells
mergeIn(rows, cols, board, cells, px, py) ==
  [r \in 1..rows |-> [c \in 1..cols |->
     \/ board[r][c]
     \/ \E f \in FilledCells(cells) : py + f.y = r - 1 /\ px + f.x = c - 1]]

merge(board, cells, px, py) == mergeIn(ROWS, COLS, board, cells, px, py)

RECURSIVE clearLinesIn_CountsVisits(_, _, _, _, _)
\* a clearLines loop that counts every row it looks at
clearLinesIn_CountsVisits(rows, cols, board, y, cleared) ==
  IF y < 0 THEN [board |-> board, cleared |-> cleared]
  ELSE IF \A c \in 1..cols : board[y + 1][c]
       THEN LET spliced == [r \in 1..rows |->
                              IF r = 1 THEN [c \in 1..cols |-> FALSE]
                              ELSE IF r <= y + 1 THEN board[r - 1]
                              ELSE board[r]]
            IN clearLinesIn_CountsVisits(rows, cols, spliced, y, cleared + 1)
       ELSE clearLinesIn_CountsVisits(rows, cols, board, y - 1, cleared + 1)

RECURSIVE clearLinesIn(_, _, _, _, _)
\* the loop of clearLines at row y with `cleared` rows removed so far, in a
\* well of rows x cols cells
clearLinesIn(rows, cols, board, y, cleared) ==
  IF y < 0 THEN [board |-> board, cleared |-> cleared]
  ELSE IF \A c \in 1..cols : board[y + 1][c]
       THEN LET spliced == [r \in 1..rows |->
                              IF r = 1 THEN [c \in 1..cols |-> FALSE]
                              ELSE IF r <= y + 1 THEN board[r - 1]
                              ELSE board[r]]
            IN clearLinesIn(rows, cols, spliced, y, cleared + 1)
       ELSE clearLinesIn(rows, cols, board, y - 1, cleared)

clearLinesFrom(board, y, cleared) == clearLinesIn(ROWS, COLS, board, y, cleared)

\* a clearLines that empties the full rows where they are
clearLines_InPlace(board) ==
  LET full(r) == \A c \in 1..COLS : board[r][c]
  IN [board   |-> [r \in 1..ROWS |-> IF full(r) THEN [c \in 1..COLS |-> FALSE] ELSE board[r]],
      cleared |-> Cardinality({r \in 1..ROWS : full(r)})]

clearLines(board) == clearLinesFrom(board, ROWS - 1, 0)

\* refillBag: a shuffle of BAG
refillBag == {BAG[i] : i \in 1..Len(BAG)}

\* a gameOver() that forgets to write the new best score to localStorage
Tet_gameOver_NoSave(w) ==
  [w EXCEPT !.mod.state.running = FALSE,
            !.mod.state.paused = FALSE,
            !.mod.state.best = Max(w.mod.state.best, w.mod.state.score),
            !.ov = showOverlay(w.ov, "Game Over")]

Tet_gameOver(w) ==
  LET s  == w.mod.state
      nb == IF s.score > s.best THEN s.score ELSE s.best
  IN [w EXCEPT !.mod.state.running = FALSE,
               !.mod.state.paused = FALSE,
               !.mod.state.best = nb,
               !.st = IF s.score > s.best THEN setBestScore(w.st, TETRIS_KEY, nb) ELSE w.st,
               !.ov = showOverlay(w.ov, "Game Over")]

\* spawn, with nextFromQueue: the worlds it can leave
Tet_spawn(w) ==
  LET queue == IF w.mod.state.queue = {} THEN refillBag ELSE w.mod.state.queue
      dealt(kind) ==
        LET ax == IF kind = "O" THEN COLS \div 2 - 1 ELSE COLS \div 2 - 2
            w1 == [w EXCEPT !.mod.state.queue = queue \ {kind},
                            !.mod.state.active = [kind |-> kind, cells |-> PIECES[kind]],
                            !.mod.state.ax = ax,
                            !.mod.state.ay = -2]
        IN IF collides(w.mod.state.board, PIECES[kind], ax, -2) THEN Tet_gameOver(w1) ELSE w1
  IN { dealt(kind) : kind \in queue }

linePoints == <<0, 100, 300, 500, 800>>

\* an updateScore that pays every row the single-row value
Tet_updateScore_Linear(w, lines) ==
  LET s == w.mod.state
      total == s.lines + lines
  IN IF lines = 0 THEN w
     ELSE [w EXCEPT !.mod.state.lines = total,
                    !.mod.state.score = @ + lines * linePoints[2] * (s.level + 1),
                    !.mod.state.level = IF total >= (s.level + 1) * 10 THEN @ + 1 ELSE @]

Tet_updateScore(w, lines) ==
  LET s == w.mod.state
      total == s.lines + lines
  IN IF lines = 0 THEN w
     ELSE [w EXCEPT !.mod.state.lines = total,
                    !.mod.state.score = @ + linePoints[lines + 1] * (s.level + 1),
                    !.mod.state.level = IF total >= (s.level + 1) * 10 THEN @ + 1 ELSE @]

getDropIntervalMs(s) == Max(DROP_MIN_MS, DROP_BASE_MS - s.level * DROP_LEVEL_MS)

Tet_lock(w) ==
  LET s == w.mod.state
      above == \E f \in FilledCells(s.active.cells) : s.ay + f.y < 0
      res == clearLines(merge(s.board, s.active.cells, s.ax, s.ay))
      merged == [w EXCEPT !.mod.state.board = res.board]
  IN IF above THEN {Tet_gameOver(w)}
     ELSE Tet_spawn(Tet_updateScore(merged, res.cleared))

\* tryMove: the world afterwards (the boolean it returns is ~collides)
Tet_canMove(w, dx, dy) ==
  /\ w.mod.state.active # NoState
  /\ ~collides(w.mod.state.board, w.mod.state.active.cells,
               w.mod.state.ax + dx, w.mod.state.ay + dy)

\* a tryMove that does not test the target position
Tet_tryMove_Unchecked(w, dx, dy) ==
  IF w.mod.state.active # NoState
  THEN [w EXCEPT !.mod.state.ax = @ + dx, !.mod.state.ay = @ + dy]
  ELSE w

Tet_tryMove(w, dx, dy) ==
  IF Tet_canMove(w, dx, dy)
  THEN [w EXCEPT !.mod.state.ax = @ + dx, !.mod.state.ay = @ + dy]
  ELSE w

\* kicks that try the right before the left
kicks_RightFirst == <<Pos(0, 0), Pos(1, 0), Pos(-1, 0), Pos(2, 0), Pos(-2, 0), Pos(0, -1)>>

kicks == <<Pos(0, 0), Pos(-1, 0), Pos(1, 0), Pos(-2, 0), Pos(2, 0), Pos(0, -1)>>

Tet_tryRotate(w) ==
  LET s == w.mod.state
      rotated == rotateCW(s.active.cells)
      fits == {i \in 1..Len(kicks) :
                 ~collides(s.board, rotated, s.ax + kicks[i].x, s.ay + kicks[i].y)}
      i0 == CHOOSE i \in fits : \A j \in fits : i <= j
  IN IF s.active = NoState THEN w
     ELSE IF s.active.kind = "O" THEN w
     ELSE IF fits = {} THEN w
     ELSE [w EXCEPT !.mod.state.active.cells = rotated,
                    !.mod.state.ax = @ + kicks[i0].x,
                    !.mod.state.ay = @ + kicks[i0].y]

RECURSIVE getHardDropY(_, _)
getHardDropY(s, y) ==
  IF collides(s.board, s.active.cells, s.ax, y + 1) THEN y ELSE getHardDropY(s, y + 1)

Tet_hardDrop(w) ==
  IF w.mod.state.active = NoState THEN {w}
  ELSE Tet_lock([w EXCEPT !.mod.state.ay = getHardDropY(w.mod.state, w.mod.state.ay)])

Tet_softDrop(w) ==
  IF Tet_canMove(w, 0, 1) THEN {Tet_tryMove(w, 0, 1)} ELSE Tet_lock(w)

\* a resetState() that carries the line count and the level over
Tet_resetState_KeepsLines(w) ==
  Tet_spawn([w EXCEPT !.mod.state =
                        [board |-> makeBoard,
                         queue |-> refillBag,
                         active |-> NoState,
                         ax |-> 0,
                         ay |-> 0,
                         score |-> 0,
                         best |-> getBestScore(w.st, TETRIS_KEY),
                         lines |-> IF w.mod.state = NoState THEN 0 ELSE w.mod.state.lines,
                         level |-> IF w.mod.state = NoState THEN 0 ELSE w.mod.state.level,
                         running |-> TRUE,
                         paused |-> FALSE,
                         lastDropTs |-> NoTs],
                      !.ov = hideOverlay(w.ov)])

Tet_resetState(w) ==
  Tet_spawn([w EXCEPT !.mod.state =
                        [board |-> makeBoard,
                         queue |-> refillBag,
                         active |-> NoState,
                         ax |-> 0,
                         ay |-> 0,
                         score |-> 0,
                         best |-> getBestScore(w.st, TETRIS_KEY),
                         lines |-> 0,
                         level |-> 0,
                         running |-> TRUE,
                         paused |-> FALSE,
                         lastDropTs |-> NoTs],
                      !.ov = hideOverlay(w.ov)])

Tet_togglePause(w) ==
  LET s == w.mod.state
  IN IF s = NoState THEN w
     ELSE IF ~s.running THEN w
     ELSE IF ~s.paused
          THEN [w EXCEPT !.mod.state.paused = TRUE, !.ov = showOverlay(w.ov, "Paused")]
     ELSE [w EXCEPT !.mod.state.paused = FALSE, !.ov = hideOverlay(w.ov),
                    !.mod.state.lastDropTs = 0]

\* a loop() that keeps dropping the piece while paused
Tet_loop_IgnoresPause(w0, d) ==
  LET ran == [w0 EXCEPT !.mod.rafPending = @ - 1,
                        !.mod.rafId = IF @ = "live" THEN "spent" ELSE @]
      requeue(x) == [x EXCEPT !.mod.rafId = "live", !.mod.rafPending = @ + 1]
  IN IF w0.mod.state = NoState THEN {ran}
     ELSE IF ~w0.mod.state.running THEN {requeue(ran)}
     ELSE { requeue([x EXCEPT !.mod.state.lastDropTs = 0]) : x \in Tet_softDrop(ran) }

Tet_loop(w0, d) ==
  LET ran == [w0 EXCEPT !.mod.rafPending = @ - 1,
                        !.mod.rafId = IF @ = "live" THEN "spent" ELSE @]
      requeue(x) == [x EXCEPT !.mod.rafId = "live", !.mod.rafPending = @ + 1]
  IN IF w0.mod.state = NoState THEN {ran}
     ELSE LET s0   == w0.mod.state
              aged == [ran EXCEPT !.mod.state.lastDropTs = Age(s0.lastDropTs, d, DROP_BASE_MS)]
              w1   == [aged EXCEPT !.mod.state.lastDropTs = IF @ = NoTs THEN 0 ELSE @]
              due  == w1.mod.state.lastDropTs >= getDropIntervalMs(s0)
          IN IF ~s0.running THEN {requeue(aged)}
             ELSE IF s0.paused \/ ~due THEN {requeue(w1)}
             ELSE { requeue([x EXCEPT !.mod.state.lastDropTs = 0]) : x \in Tet_softDrop(w1) }

Tet_start(w) ==
  { [x EXCEPT !.mod.rafPending =
                 (IF x.mod.rafId = "live" THEN @ - 1 ELSE @) + 1,
              !.mod.rafId = "live"]
    : x \in Tet_resetState([w EXCEPT !.mod = attachListeners(@)]) }

\* a stop() that cancels the frame and the listeners but keeps the state
Tet_stop_KeepsState(w) ==
  [w EXCEPT !.mod.rafPending = IF w.mod.rafId = "live" THEN @ - 1 ELSE @,
            !.mod.rafId = Null,
            !.mod.runningAttached = FALSE,
            !.mod.listeners = detachListeners(w.mod).listeners,
            !.ov.hidden = TRUE]

Tet_stop(w) ==
  [w EXCEPT !.mod.rafPending = IF w.mod.rafId = "live" THEN @ - 1 ELSE @,
            !.mod.rafId = Null,
            !.mod.runningAttached = FALSE,
            !.mod.listeners = detachListeners(w.mod).listeners,
            !.ov.hidden = TRUE,
            !.mod.state = NoState]

(***************************************************************************)
(* The state machine                                                       *)
(***************************************************************************)
Games == {"snake", "pacman", "breakout", "tetris"}

Keys == {SNAKE_KEY, PACMAN_KEY, BREAKOUT_KEY, TETRIS_KEY}

NewModule == [state |-> NoState, rafId |-> Null, rafPending |-> 0,
              runningAttached |-> FALSE, listeners |-> 0,
              lifeLostTimeoutId |-> Null, timers |-> 0]

ScoreOf(m) == IF m.state = NoState THEN 0 ELSE m.state.score

\* the module of the game this behaviour exercises; the router's `current`
\* is that module from startX() to showMenu()
Cur ==
  CASE focus = "snake" -> snake
    [] focus = "pacman" -> pacman
    [] focus = "breakout" -> breakout
    [] OTHER -> tetris

Started == Cur.state # NoState

CurKey ==
  CASE focus = "snake" -> SNAKE_KEY
    [] focus = "pacman" -> PACMAN_KEY
    [] focus = "breakout" -> BREAKOUT_KEY
    [] OTHER -> TETRIS_KEY

\* startX(): if (current.setMuted) current.setMuted(muted), after start()
Router_setMuted(m, g) == [m EXCEPT ![g] = m.router]

\* the router's keydown listener, key m: muted = !muted, forwarded to the
\* current game if there is one
Router_keyM(m, g, current) ==
  LET flipped == [m EXCEPT !.router = ~@]
  IN IF current THEN Router_setMuted(flipped, g) ELSE flipped

\* a game's keydown listener, key m: toggleMuted()
Game_toggleMuted(m, g) == [m EXCEPT ![g] = ~@]

SnakeWorld == [mod |-> snake, ov |-> overlay, st |-> storage, log |-> <<>>]

SnakeWrite(w) ==
  /\ snake' = w.mod
  /\ overlay' = w.ov
  /\ storage' = w.st
  /\ peak' = Max(peak, ScoreOf(w.mod))
  /\ lossLog' = w.log
  /\ UNCHANGED <<focus, pacman, breakout, tetris, call>>

SnakeCommit(w) == SnakeWrite(w) /\ UNCHANGED muted

\* the router starts the game from the menu
SnakeStart ==
  /\ focus = "snake"
  /\ snake.state = NoState
  /\ \E w \in Snake_start(SnakeWorld) : SnakeWrite(w)
  /\ muted' = Router_setMuted(muted, "snake")
  /\ meter' = [meter EXCEPT !.frames = 0]

\* Escape: the router's showMenu() calls stop()
SnakeStop ==
  /\ snake.state # NoState
  /\ SnakeCommit(Snake_stop(SnakeWorld))
  /\ UNCHANGED meter

SnakeStepping == snake.state # NoState /\ snake.state.running /\ ~snake.state.paused

\* a frame callback; the score, and the stepping frames of one life, are bounded
SnakeFrame(d) ==
  /\ snake.rafPending > 0
  /\ snake.state # NoState => snake.state.score < MaxScore
  /\ SnakeStepping => meter.frames < MaxSnakeFrames
  /\ SnakeStepping => d # SnakeStallMs
  /\ (snake.state # NoState /\ snake.state.paused) => d = SnakeStallMs
  /\ \E w \in Snake_loop(SnakeWorld, d) :
       /\ SnakeCommit(w)
       /\ meter' = IF ~SnakeStepping THEN meter
                   ELSE IF w.log # <<>> THEN [meter EXCEPT !.frames = 0, !.keys = 0]
                   ELSE [meter EXCEPT !.frames = @ + 1]

SnakeKeySpace ==
  /\ snake.runningAttached
  /\ SnakeCommit(Snake_togglePause(SnakeWorld))
  /\ UNCHANGED meter

SnakeKeyR ==
  /\ snake.runningAttached
  /\ \E w \in Snake_resetState(SnakeWorld) : SnakeCommit(w)
  /\ meter' = [meter EXCEPT !.frames = 0]

SnakeKeyDir(next) ==
  /\ snake.runningAttached
  /\ meter.keys < MaxSnakeKeys
  /\ SnakeCommit(Snake_queueDirection(SnakeWorld, next))
  /\ meter' = [meter EXCEPT !.keys = @ + 1]

SnakeTimer ==
  /\ snake.timers > 0
  /\ SnakeCommit(Snake_lifeLostTimeout(SnakeWorld))
  /\ UNCHANGED meter

SnakeNext ==
  \/ SnakeStart
  \/ SnakeStop
  \/ \E d \in SnakeFrameMs : SnakeFrame(d)
  \/ SnakeKeySpace
  \/ SnakeKeyR
  \/ \E i \in 1..4 : SnakeKeyDir(FoodDirs[i])
  \/ SnakeTimer

(***************************************************************************)
(* Pac-Man actions                                                         *)
(***************************************************************************)
PacWorld == [mod |-> pacman, ov |-> overlay, st |-> storage, log |-> <<>>]

PacWrite(w) ==
  /\ pacman' = w.mod
  /\ overlay' = w.ov
  /\ storage' = w.st
  /\ peak' = Max(peak, ScoreOf(w.mod))
  /\ lossLog' = w.log
  /\ UNCHANGED <<focus, snake, breakout, tetris, call>>

PacCommit(w) == PacWrite(w) /\ UNCHANGED muted

PacStart_ ==
  /\ focus = "pacman"
  /\ pacman.state = NoState
  /\ PacWrite(Pac_start(PacWorld))
  /\ muted' = Router_setMuted(muted, "pacman")
  /\ meter' = [meter EXCEPT !.frames = 0]

\* Escape: the router's showMenu() calls stop()
PacStop ==
  /\ pacman.state # NoState
  /\ PacCommit(Pac_stop(PacWorld))
  /\ UNCHANGED meter

PacStepping == pacman.state # NoState /\ pacman.state.running /\ ~pacman.state.paused

\* a frame callback; the frames of one life (at most maxFrames) and the
\* random substitutions of the ghosts are bounded
PacFrameWithin(d, maxFrames) ==
  /\ pacman.rafPending > 0
  /\ PacStepping => meter.frames < maxFrames /\ d = FPS_DT_LIMIT
  /\ ~PacStepping => d = PacStallMs
  /\ \E subs \in {{FALSE}, BOOLEAN} :
       /\ subs = BOOLEAN => PacStepping /\ meter.randoms < MaxRandom
       /\ \E w \in Pac_loop(PacWorld, d, subs) :
            /\ subs = BOOLEAN => w \notin Pac_loop(PacWorld, d, {FALSE})
            /\ PacCommit(w)
            /\ meter' = [meter EXCEPT
                          !.frames = IF ~PacStepping THEN @
                                     ELSE IF w.mod.state.lives < pacman.state.lives THEN 0
                                     ELSE @ + 1,
                          !.keys = IF PacStepping /\ w.mod.state.lives < pacman.state.lives
                                    THEN 0 ELSE @,
                          !.randoms = IF subs = BOOLEAN THEN @ + 1 ELSE @]

PacFrame(d) == PacFrameWithin(d, MaxPacFrames)

PacKeySpace ==
  /\ pacman.runningAttached
  /\ pacman.state.running
  /\ PacCommit(Pac_setPaused(PacWorld, ~pacman.state.paused))
  /\ UNCHANGED meter

PacKeyR ==
  /\ pacman.runningAttached
  /\ PacCommit(Pac_resetState(PacWorld))
  /\ meter' = [meter EXCEPT !.frames = 0]

PacKeyDir(wish) ==
  /\ pacman.runningAttached
  /\ meter.keys < MaxPacTurns
  /\ PacCommit([PacWorld EXCEPT !.mod.state.pac.wish = wish])
  /\ meter' = [meter EXCEPT !.keys = @ + 1]

PacTimer ==
  /\ pacman.timers > 0
  /\ PacCommit(Pac_lifeLostTimeout(PacWorld))
  /\ UNCHANGED meter

PacNext ==
  \/ PacStart_
  \/ PacStop
  \/ \E d \in PacFrameMs : PacFrame(d)
  \/ PacKeySpace
  \/ PacKeyR
  \/ \E wish \in {DIRS.left, DIRS.right, DIRS.up, DIRS.down} : PacKeyDir(wish)
  \/ PacTimer

(***************************************************************************)
(* Breakout actions                                                        *)
(***************************************************************************)
BrkWorld == [mod |-> breakout, ov |-> overlay, st |-> storage, log |-> <<>>]

BrkWrite(w) ==
  /\ breakout' = w.mod
  /\ overlay' = w.ov
  /\ storage' = w.st
  /\ peak' = Max(peak, ScoreOf(w.mod))
  /\ lossLog' = w.log
  /\ UNCHANGED <<focus, snake, pacman, tetris, call>>

BrkCommit(w) == BrkWrite(w) /\ UNCHANGED muted

BrkStart ==
  /\ focus = "breakout"
  /\ breakout.state = NoState
  /\ BrkWrite(Brk_start(BrkWorld))
  /\ muted' = Router_setMuted(muted, "breakout")
  /\ meter' = [meter EXCEPT !.frames = 0]

\* Escape: the router's showMenu() calls stop()
BrkStop ==
  /\ breakout.state # NoState
  /\ BrkCommit(Brk_stop(BrkWorld))
  /\ UNCHANGED meter

BrkStepping == breakout.state # NoState /\ breakout.state.running /\ ~breakout.state.paused

BrkFlying == BrkStepping /\ ~breakout.state.ball.attached

\* a frame callback; the frames of one life with the ball in flight are
\* bounded, and a frame runs only while at most MaxBrkTimers timeouts are pending
BrkFrame(d) ==
  /\ breakout.rafPending > 0
  /\ BrkFlying => meter.frames < MaxBrkFrames
  /\ LET w == Brk_loop(BrkWorld, d)
     IN /\ breakout.timers <= MaxBrkTimers
        /\ BrkCommit(w)
        /\ meter' = IF ~BrkFlying THEN meter
                    ELSE IF w.mod.state.lives < breakout.state.lives
                         THEN [meter EXCEPT !.frames = 0, !.keys = 0]
                    ELSE [meter EXCEPT !.frames = @ + 1]

BrkKeyP ==
  /\ breakout.runningAttached
  /\ breakout.state.running
  /\ BrkCommit(Brk_setPaused(BrkWorld, ~breakout.state.paused))
  /\ UNCHANGED meter

BrkKeyR ==
  /\ breakout.runningAttached
  /\ BrkCommit(Brk_resetState(BrkWorld))
  /\ meter' = [meter EXCEPT !.frames = 0]

BrkKeySpace ==
  /\ breakout.runningAttached
  /\ breakout.state.running
  /\ ~breakout.state.paused
  /\ \E w \in Brk_launchBall(BrkWorld) : BrkCommit(w)
  /\ UNCHANGED meter

\* keydown / keyup of a left or right key (a repeated keydown changes nothing)
BrkKeyArrow(side, down) ==
  /\ breakout.runningAttached
  /\ breakout.state.input[side] # down
  /\ meter.keys < MaxBrkKeys
  /\ BrkCommit([BrkWorld EXCEPT !.mod.state.input[side] = down])
  /\ meter' = [meter EXCEPT !.keys = @ + 1]

BrkTimer ==
  /\ breakout.timers > 0
  /\ BrkCommit(Brk_lifeLostTimeout(BrkWorld))
  /\ UNCHANGED meter

BrkNext ==
  \/ BrkStart
  \/ BrkStop
  \/ \E d \in BrkFrameMs : BrkFrame(d)
  \/ BrkKeyP
  \/ BrkKeyR
  \/ BrkKeySpace
  \/ \E side \in {"left", "right"}, down \in BOOLEAN : BrkKeyArrow(side, down)
  \/ BrkTimer

(***************************************************************************)
(* Tetris actions                                                          *)
(***************************************************************************)
TetWorld == [mod |-> tetris, ov |-> overlay, st |-> storage, log |-> <<>>]

\* the pieces dealt from the first bag of a session are bounded
TetDealt(w) == IF w.mod.state = NoState THEN 0 ELSE Len(BAG) - Cardinality(w.mod.state.queue)

TetWrite(w) ==
  /\ TetDealt(w) <= MaxPieces
  /\ tetris' = w.mod
  /\ overlay' = w.ov
  /\ storage' = w.st
  /\ peak' = Max(peak, ScoreOf(w.mod))
  /\ lossLog' = w.log
  /\ UNCHANGED <<focus, snake, pacman, breakout, meter, call>>

TetCommit(w) == TetWrite(w) /\ UNCHANGED muted

TetStart ==
  /\ focus = "tetris"
  /\ tetris.state = NoState
  /\ \E w \in Tet_start(TetWorld) : TetWrite(w)
  /\ muted' = Router_setMuted(muted, "tetris")

\* Escape: the router's showMenu() calls stop()
TetStop ==
  /\ tetris.state # NoState
  /\ TetCommit(Tet_stop(TetWorld))

TetFrame(d) ==
  /\ tetris.rafPending > 0
  /\ \E w \in Tet_loop(TetWorld, d) : TetCommit(w)

TetKeyP ==
  /\ tetris.runningAttached
  /\ TetCommit(Tet_togglePause(TetWorld))

TetKeyR ==
  /\ tetris.runningAttached
  /\ \E w \in Tet_resetState(TetWorld) : TetCommit(w)

\* a key guard that lets the keys through after game over
TetPlaying_IgnoresGameOver == tetris.state # NoState /\ ~tetris.state.paused

\* the keys behind the guard  !state || !state.running || state.paused
TetPlaying == tetris.state # NoState /\ tetris.state.running /\ ~tetris.state.paused

TetKeyMove(dx) ==
  /\ tetris.runningAttached
  /\ TetCommit(IF TetPlaying THEN Tet_tryMove(TetWorld, dx, 0) ELSE TetWorld)

TetKeyDown ==
  /\ tetris.runningAttached
  /\ \E w \in (IF TetPlaying THEN Tet_softDrop(TetWorld) ELSE {TetWorld}) : TetCommit(w)

TetKeyUp ==
  /\ tetris.runningAttached
  /\ TetCommit(IF TetPlaying THEN Tet_tryRotate(TetWorld) ELSE TetWorld)

TetKeySpace ==
  /\ tetris.runningAttached
  /\ \E w \in (IF TetPlaying THEN Tet_hardDrop(TetWorld) ELSE {TetWorld}) : TetCommit(w)

TetNext ==
  \/ TetStart
  \/ TetStop
  \/ \E d \in TetFrameMs : TetFrame(d)
  \/ TetKeyP
  \/ TetKeyR
  \/ \E dx \in {-1, 1} : TetKeyMove(dx)
  \/ TetKeyDown
  \/ TetKeyUp
  \/ TetKeySpace

\* no helper function is being applied on its own
NoCall == [fn |-> "none"]

\* nothing started: the page as loaded, before a game is chosen
Idle ==
  /\ snake = NewModule
  /\ pacman = NewModule
  /\ breakout = NewModule
  /\ tetris = NewModule
  /\ meter = [frames |-> 0, randoms |-> 0, keys |-> 0]
  /\ overlay = [hidden |-> TRUE, title |-> ""]
  /\ storage = [k \in Keys |-> [has |-> FALSE, raw |-> <<>>]]
  /\ peak = 0
  /\ lossLog = <<>>
  /\ muted = [router |-> FALSE, snake |-> FALSE, pacman |-> FALSE,
              breakout |-> FALSE, tetris |-> FALSE]

InitCommon == Idle /\ call = NoCall

SnakeInit == focus = "snake" /\ InitCommon

SnakeSpec == SnakeInit /\ [][SnakeNext]_vars

PacInit == focus = "pacman" /\ InitCommon

BrkInit == focus = "breakout" /\ InitCommon

BrkSpec == BrkInit /\ [][BrkNext]_vars

TetInit == focus = "tetris" /\ InitCommon

TetSpec == TetInit /\ [][TetNext]_vars

PacSpec == PacInit /\ [][PacNext]_vars

Init == focus \in Games /\ InitCommon

Next == SnakeNext \/ PacNext \/ BrkNext \/ TetNext

Spec == Init /\ [][Next]_vars

\* the two games that keep the id of their life-lost timer
TimerInit == focus \in {"snake", "pacman"} /\ InitCommon

TimerNext == SnakeNext \/ PacNext

TimerSpec == TimerInit /\ [][TimerNext]_vars

\* Pac-Man late in a run: a life has just been lost with only the pellets
\* next to the start cell left (the power pellets are eaten)
EndPellets ==
  { {posKey(PacStart.x - 1, PacStart.y)},
    {posKey(PacStart.x + 1, PacStart.y)},
    {posKey(PacStart.x - 1, PacStart.y), posKey(PacStart.x - 2, PacStart.y)},
    {posKey(PacStart.x - 1, PacStart.y), posKey(PacStart.x + 1, PacStart.y)} }

PacEndInit ==
  /\ focus = "pacman"
  /\ snake = NewModule
  /\ breakout = NewModule
  /\ tetris = NewModule
  /\ meter = [frames |-> 0, randoms |-> 0, keys |-> 0]
  /\ call = NoCall
  /\ muted = [router |-> FALSE, snake |-> FALSE, pacman |-> FALSE,
              breakout |-> FALSE, tetris |-> FALSE]
  /\ \E left \in EndPellets, lives \in 2..3 :
       LET fresh == [mod |-> NewModule,
                     ov  |-> [hidden |-> TRUE, title |-> ""],
                     st  |-> [k \in Keys |-> [has |-> FALSE, raw |-> <<>>]],
                     log |-> <<>>]
           late  == [Pac_start(fresh) EXCEPT
                       !.mod.state.pellets = left,
                       !.mod.state.power = {},
                       !.mod.state.score = 10 * (Cardinality(ParsedPellets) - Cardinality(left))
                                           + 50 * Cardinality(ParsedPower),
                       !.mod.state.lives = lives]
           w     == Pac_loseLife(late)
       IN /\ pacman = w.mod
          /\ overlay = w.ov
          /\ storage = w.st
          /\ peak = w.mod.state.score
          /\ lossLog = w.log

PacEndSpec == PacEndInit /\ [][PacNext]_vars

\* The key m.  Both keydown listeners are on window and run in the order in
\* which they were added: the router's (added when the page loads), then
\* the game's (added by start()).
KeyM ==
  /\ muted' = LET routed == Router_keyM(muted, focus, Started)
              IN IF Cur.runningAttached THEN Game_toggleMuted(routed, focus) ELSE routed
  /\ UNCHANGED <<focus, snake, pacman, breakout, tetris, overlay, storage, peak, lossLog,
                 meter, call>>

\* starting, pausing, restarting, muting and leaving a game
MuteNext ==
  \/ SnakeStart \/ PacStart_ \/ BrkStart \/ TetStart
  \/ SnakeStop \/ PacStop \/ BrkStop \/ TetStop
  \/ SnakeKeySpace \/ PacKeySpace \/ BrkKeyP \/ TetKeyP
  \/ SnakeKeyR \/ PacKeyR \/ BrkKeyR \/ TetKeyR
  \/ KeyM

MuteSpec == Init /\ [][MuteNext]_vars

(***************************************************************************)
(* The helper functions applied on their own.  No game is started; call   *)
(* holds the function, its arguments and its result.                       *)
(***************************************************************************)
games == <<focus, snake, pacman, breakout, tetris, overlay, storage, peak, lossLog, meter, muted>>

\* rotateCW: the seven piece matrices, and every 0/1 matrix of up to
\* RotMaxH rows and RotMaxW columns
RotMaxH == 2
RotMaxW == 3

RotInputs ==
  {PIECES[k] : k \in DOMAIN PIECES}
    \cup UNION { [1..h -> [1..w -> {0, 1}]] : h \in 1..RotMaxH, w \in 1..RotMaxW }

RotInit ==
  /\ focus = "tetris" /\ Idle
  /\ \E m \in RotInputs : call = [fn |-> "rotateCW", arg |-> m, out |-> m, n |-> 0]

\* one more rotateCW on the result of the previous one
RotStep ==
  /\ call.fn = "rotateCW"
  /\ call.n < 4
  /\ call' = [call EXCEPT !.out = rotateCW(@), !.n = @ + 1]
  /\ UNCHANGED games

RotSpec == RotInit /\ [][RotStep]_vars

\* updateScore: levels up to ScoreMaxLevel, with the line count a game at
\* that level has (level = lines \div 10), and 1..4 rows cleared at once
ScoreMaxLevel == 4

\* the part of state that updateScore reads and writes
ScoreWorld(st) == [mod |-> [state |-> st]]

ScoreInit ==
  /\ focus = "tetris" /\ Idle
  /\ \E level \in 0..ScoreMaxLevel, below \in 0..9 :
       LET st == [level |-> level, lines |-> 10 * level + below,
                  score |-> 100 * (10 * level + below)]
       IN call = [fn |-> "updateScore", arg |-> st, n |-> 0, out |-> st]

ScoreStep ==
  /\ call.fn = "updateScore"
  /\ call.n = 0
  /\ \E n \in 1..4 :
       call' = [call EXCEPT !.n = n,
                            !.out = Tet_updateScore(ScoreWorld(call.arg), n).mod.state]
  /\ UNCHANGED games

ScoreSpec == ScoreInit /\ [][ScoreStep]_vars

\* step() of Snake, one tick, on a running game: every 3-cell snake of the
\* board, the food on a cell spawnFood can give, a queued direction that
\* does not reverse, and scores on both sides of a speed-up with the tick
\* lengths a life can have at that score
StepScores == {0, 4, 5, 9, 49}

StepSpeeds ==
  { [score |-> sc, tickMs |-> Max(MIN_SPEED_MS, INITIAL_SPEED_MS - 7 * k)]
    : <<sc, k>> \in { <<sc, k>> \in StepScores \X (0..10) : k <= sc \div SPEEDUP_EVERY } }

Adjacent(p, q) == Abs(p.x - q.x) + Abs(p.y - q.y) = 1

StepBodies ==
  { <<a, b, c>> : <<a, b, c>> \in
      { t \in Cells \X Cells \X Cells :
          Adjacent(t[1], t[2]) /\ Adjacent(t[2], t[3]) /\ t[1] # t[3] } }

\* a started game whose state is st
StepWorld(st) ==
  LET fresh == [mod |-> NewModule,
                ov  |-> [hidden |-> TRUE, title |-> ""],
                st  |-> [k \in Keys |-> [has |-> FALSE, raw |-> <<>>]],
                log |-> <<>>]
      w0    == CHOOSE w \in Snake_start(fresh) : TRUE
  IN IF st = NoState THEN w0 ELSE [w0 EXCEPT !.mod.state = st]

StepInit ==
  /\ focus = "snake" /\ Idle
  /\ \E body \in StepBodies, sp \in StepSpeeds, q \in SeqToSet(FoodDirs) :
       \E food \in spawnFood(body) :
         LET dir == Pos(body[1].x - body[2].x, body[1].y - body[2].y)
             st  == [StepWorld(NoState).mod.state EXCEPT
                       !.snake = body, !.food = food, !.dir = dir, !.queuedDir = q,
                       !.score = sp.score, !.tickMs = sp.tickMs,
                       !.lastStepTs = 0, !.lastFoodMoveTs = 0]
         IN /\ ~isOpposite(q, dir)
            /\ call = [fn |-> "step", arg |-> st, n |-> 0, out |-> st]

StepTick ==
  /\ call.fn = "step"
  /\ call.n = 0
  /\ \E w \in Snake_step(StepWorld(call.arg)) :
       call' = [call EXCEPT !.n = 1, !.out = w.mod.state]
  /\ UNCHANGED games

StepSpec == StepInit /\ [][StepTick]_vars

\* getBestScore on a storage whose value for the key is missing, or any
\* string of up to MaxRawLen characters of RawAlphabet, or (-)Infinity
MaxRawLen == 3

RawAlphabet == {"0", "1", "7", "-", " ", "a"}

RawStrings ==
  UNION { [1..n -> RawAlphabet] : n \in 0..MaxRawLen }
    \cup {InfinityChars, <<"-">> \o InfinityChars}

StoredItems == {[has |-> FALSE, raw |-> <<>>]} \cup {[has |-> TRUE, raw |-> r] : r \in RawStrings}

BestInit ==
  /\ focus \in Games /\ Idle
  /\ \E item \in StoredItems :
       call = [fn |-> "getBestScore", arg |-> item, n |-> 0, out |-> 0]

BestRead ==
  /\ call.fn = "getBestScore"
  /\ call.n = 0
  /\ call' = [call EXCEPT !.n = 1,
                          !.out = getBestScore([k \in Keys |-> call.arg], CurKey)]
  /\ UNCHANGED games

BestSpec == BestInit /\ [][BestRead]_vars

\* eatFoodAt (which asks spawnFood for the new food) on every snake of the
\* board from 3 cells up to one that fills it, its head on the food
RECURSIVE SnakePaths(_)
SnakePaths(n) ==
  IF n = 1 THEN { <<c>> : c \in Cells }
  ELSE UNION { { Append(p, c) : c \in { c \in Cells : /\ Adjacent(p[Len(p)], c)
                                                     /\ c \notin SeqToSet(p) } }
               : p \in SnakePaths(n - 1) }

FoodInit ==
  /\ focus = "snake" /\ Idle
  /\ \E n \in 3..(GRID_SIZE * GRID_SIZE) :
       \E body \in SnakePaths(n) :
         LET dir == Pos(body[1].x - body[2].x, body[1].y - body[2].y)
             st  == [StepWorld(NoState).mod.state EXCEPT
                       !.snake = body, !.food = body[1], !.dir = dir, !.queuedDir = dir,
                       !.lastStepTs = 0, !.lastFoodMoveTs = 0]
         IN call = [fn |-> "eatFoodAt", arg |-> st, n |-> 0, out |-> st]

FoodEat ==
  /\ call.fn = "eatFoodAt"
  /\ call.n = 0
  /\ \E w \in Snake_eatFoodAt(StepWorld(call.arg)) :
       call' = [call EXCEPT !.n = 1, !.out = w.mod.state]
  /\ UNCHANGED games

FoodSpec == FoodInit /\ [][FoodEat]_vars

\* tryRotate on every board of the well, with every piece in each of its
\* four orientations at every place where it does not collide
Rotations(m) == {m, rotateCW(m), rotateCW(rotateCW(m)), rotateCW(rotateCW(rotateCW(m)))}

Boards == [1..ROWS -> [1..COLS -> BOOLEAN]]

KickInit ==
  /\ focus = "tetris" /\ Idle
  /\ \E board \in Boards, kind \in SeqToSet(BAG), ax \in (-2)..COLS, ay \in (-2)..ROWS :
       \E cells \in Rotations(PIECES[kind]) :
         LET st == [board |-> board, active |-> [kind |-> kind, cells |-> cells],
                    ax |-> ax, ay |-> ay]
         IN /\ ~collides(board, cells, ax, ay)
            /\ call = [fn |-> "tryRotate", arg |-> st, n |-> 0, out |-> st]

KickRotate ==
  /\ call.fn = "tryRotate"
  /\ call.n = 0
  /\ call' = [call EXCEPT !.n = 1, !.out = Tet_tryRotate(ScoreWorld(call.arg)).mod.state]
  /\ UNCHANGED games

KickSpec == KickInit /\ [][KickRotate]_vars

\* lock on every board without a full row (clearLines leaves none), with
\* every piece in each orientation resting where it can not move down
LockWorld(st) ==
  LET fresh == [mod |-> NewModule,
                ov  |-> [hidden |-> TRUE, title |-> ""],
                st  |-> [k \in Keys |-> [has |-> FALSE, raw |-> <<>>]],
                log |-> <<>>]
      w0    == CHOOSE w \in Tet_start(fresh) : TRUE
  IN IF st = NoState THEN w0 ELSE [w0 EXCEPT !.mod.state = st]

LockInit ==
  /\ focus = "tetris" /\ Idle
  /\ \E board \in Boards, kind \in SeqToSet(BAG), ax \in (-2)..COLS, ay \in (-2)..ROWS :
       \E cells \in Rotations(PIECES[kind]) :
         LET st == [LockWorld(NoState).mod.state EXCEPT
                      !.board = board, !.active = [kind |-> kind, cells |-> cells],
                      !.ax = ax, !.ay = ay, !.lastDropTs = 0]
         IN /\ \A r \in 1..ROWS : \E c \in 1..COLS : ~board[r][c]
            /\ ~collides(board, cells, ax, ay)
            /\ collides(board, cells, ax, ay + 1) = TRUE
            /\ call = [fn |-> "lock", arg |-> st, n |-> 0, out |-> st]

LockPiece ==
  /\ call.fn = "lock"
  /\ call.n = 0
  /\ \E w \in Tet_lock(LockWorld(call.arg)) :
       call' = [call EXCEPT !.n = 1, !.out = w.mod.state]
  /\ UNCHANGED games

LockSpec == LockInit /\ [][LockPiece]_vars

\* The router on its own: focus is `current`, "menu" for null.  The menu is
\* shown (menuEl.hidden = false) exactly while current is null: showMenu()
\* sets both, and every startX() hides the menu and sets current; the four
\* buttons can be clicked only while the menu is shown.
RouterWorld(g) ==
  [mod |-> CASE g = "snake" -> snake [] g = "pacman" -> pacman
             [] g = "breakout" -> breakout [] OTHER -> tetris,
   ov |-> overlay, st |-> storage, log |-> <<>>]

RouterWrite(g, w) ==
  /\ snake' = IF g = "snake" THEN w.mod ELSE snake
  /\ pacman' = IF g = "pacman" THEN w.mod ELSE pacman
  /\ breakout' = IF g = "breakout" THEN w.mod ELSE breakout
  /\ tetris' = IF g = "tetris" THEN w.mod ELSE tetris
  /\ overlay' = w.ov
  /\ storage' = w.st
  /\ peak' = Max(peak, ScoreOf(w.mod))
  /\ lossLog' = w.log
  /\ UNCHANGED call

\* current.start(...)
Router_start(g, w) ==
  CASE g = "snake" -> Snake_start(w)
    [] g = "pacman" -> {Pac_start(w)}
    [] g = "breakout" -> {Brk_start(w)}
    [] OTHER -> Tet_start(w)

\* current.stop()
Router_stop(g, w) ==
  CASE g = "snake" -> Snake_stop(w)
    [] g = "pacman" -> Pac_stop(w)
    [] g = "breakout" -> Brk_stop(w)
    [] OTHER -> Tet_stop(w)

\* a click on the button of game g: startSnake(), startPacman(), ...
RouterClick(g) ==
  /\ focus = "menu"
  /\ focus' = g
  /\ \E w \in Router_start(g, RouterWorld(g)) : RouterWrite(g, w)
  /\ muted' = Router_setMuted(muted, g)
  /\ meter' = [meter EXCEPT !.frames = 0]

\* Escape: showMenu()
RouterEscape ==
  /\ focus' = "menu"
  /\ IF focus = "menu"
     THEN /\ overlay' = [overlay EXCEPT !.hidden = TRUE]
          /\ UNCHANGED <<snake, pacman, breakout, tetris, storage, peak, lossLog, call>>
     ELSE RouterWrite(focus, [Router_stop(focus, RouterWorld(focus)) EXCEPT !.ov.hidden = TRUE])
  /\ UNCHANGED <<muted, meter>>

RouterInit == focus = "menu" /\ InitCommon

RouterNext ==
  \/ \E g \in Games : RouterClick(g)
  \/ RouterEscape
  \/ SnakeKeySpace \/ PacKeySpace \/ BrkKeyP \/ TetKeyP
  \/ SnakeKeyR \/ PacKeyR \/ BrkKeyR \/ TetKeyR
  \/ KeyM

RouterSpec == RouterInit /\ [][RouterNext]_vars

\* lock() in a well tall enough for more than four rows: TallRows x TallCols
\* cells.  The boards have no full row, as lock() leaves them; the piece
\* rests where it fits and can not move down.
TallRows == 5
TallCols == 2

TallBoards ==
  [1..TallRows -> {row \in [1..TallCols -> BOOLEAN] : \E c \in 1..TallCols : ~row[c]}]

\* (score, lines, level) of a session: level goes up when lines reaches
\* 10 * (level + 1)
TallProgress == {<<0, 0, 0>>, <<linePoints[3], 8, 0>>, <<linePoints[5], 12, 1>>}

LinesInit ==
  /\ focus = "tetris" /\ Idle
  /\ \E board \in TallBoards, kind \in SeqToSet(BAG),
        ax \in (-2)..TallCols, ay \in (-2)..TallRows,
        prog \in TallProgress :
       \E cells \in Rotations(PIECES[kind]) :
         /\ ~collidesIn(TallRows, TallCols, board, cells, ax, ay)
         /\ collidesIn(TallRows, TallCols, board, cells, ax, ay + 1) = TRUE
         /\ call = [fn |-> "lines",
                    arg |-> [board |-> board, cells |-> cells, ax |-> ax, ay |-> ay,
                             score |-> prog[1], lines |-> prog[2], level |-> prog[3]],
                    n |-> 0,
                    out |-> [over |-> FALSE, cleared |-> 0, defined |-> TRUE,
                             score |-> prog[1], lines |-> prog[2], level |-> prog[3]]]

\* lock(): game over when a cell is above the well, else merge, clearLines
\* and updateScore (the spawn that follows does not touch the score);
\* `defined` tells whether linePoints[lines] is an element of the array
LinesLock ==
  /\ call.fn = "lines"
  /\ call.n = 0
  /\ LET a == call.arg
         above == \E f \in FilledCells(a.cells) : a.ay + f.y < 0
         res == clearLinesIn(TallRows, TallCols,
                             mergeIn(TallRows, TallCols, a.board, a.cells, a.ax, a.ay),
                             TallRows - 1, 0)
         defined == res.cleared + 1 \in DOMAIN linePoints
         w0 == [LockWorld(NoState) EXCEPT !.mod.state.score = a.score,
                                          !.mod.state.lines = a.lines,
                                          !.mod.state.level = a.level]
         s1 == IF defined THEN Tet_updateScore(w0, res.cleared).mod.state
               ELSE w0.mod.state
     IN call' = [call EXCEPT
                   !.n = 1,
                   !.out = IF above THEN [@ EXCEPT !.over = TRUE]
                           ELSE [over |-> FALSE, cleared |-> res.cleared,
                                 defined |-> defined, score |-> s1.score,
                                 lines |-> s1.lines, level |-> s1.level]]
  /\ UNCHANGED games

LinesSpec == LinesInit /\ [][LinesLock]_vars

\* start() called on a module that is already started, with no stop() in
\* between: the exported start() can be called at any time
StartAgain(g) ==
  /\ focus = g
  /\ RouterWorld(g).mod.state # NoState
  /\ \E w \in Router_start(g, RouterWorld(g)) : RouterWrite(g, w)
  /\ meter' = [meter EXCEPT !.frames = 0]
  /\ UNCHANGED <<focus, muted>>

\* start, start again, restart, pause, frame callbacks, Snake's life-lost
\* timer and stop
StartNext ==
  \/ SnakeStart \/ PacStart_ \/ BrkStart \/ TetStart
  \/ \E g \in Games : StartAgain(g)
  \/ SnakeStop \/ PacStop \/ BrkStop \/ TetStop
  \/ SnakeKeyR \/ PacKeyR \/ BrkKeyR \/ TetKeyR
  \/ SnakeKeySpace \/ PacKeySpace \/ BrkKeyP \/ TetKeyP
  \/ \E d \in SnakeFrameMs : SnakeFrame(d)
  \/ \E d \in PacFrameMs : PacFrame(d)
  \/ \E d \in BrkFrameMs : BrkFrame(d)
  \/ \E d \in TetFrameMs : TetFrame(d)
  \/ BrkKeySpace
  \/ SnakeTimer

StartSpec == Init /\ [][StartNext]_vars

\* the first frames of a Pac-Man run with two direction keys, enough for
\* Pac-Man to turn back and run into the ghosts that leave the gate
MaxChaseFrames == 12
MaxChaseTurns == 2

ChaseFrame ==
  /\ meter.frames < MaxChaseFrames
  /\ PacFrame(FPS_DT_LIMIT)

ChaseKeyDir(wish) ==
  /\ pacman.runningAttached
  /\ meter.keys < MaxChaseTurns
  /\ PacCommit([PacWorld EXCEPT !.mod.state.pac.wish = wish])
  /\ meter' = [meter EXCEPT !.keys = @ + 1]

ChaseNext ==
  \/ PacStart_
  \/ ChaseFrame
  \/ \E wish \in {DIRS.left, DIRS.right, DIRS.up, DIRS.down} : ChaseKeyDir(wish)

ChaseSpec == PacInit /\ [][ChaseNext]_vars

\* a Pac-Man life long enough to reach the power pellet left of the start
\* (13 cells, four turns), up to the first life lost; Space pauses while the
\* ghosts are frightened and resumes
MaxPowerFrames == 38
MaxPowerTurns == 4

PowerFrame(d) ==
  /\ pacman.state # NoState => pacman.state.lives = Pac_resetState(PacWorld).mod.state.lives
  /\ PacFrameWithin(d, MaxPowerFrames)

PowerKeyDir(wish) ==
  /\ pacman.runningAttached
  /\ meter.keys < MaxPowerTurns
  /\ PacCommit([PacWorld EXCEPT !.mod.state.pac.wish = wish])
  /\ meter' = [meter EXCEPT !.keys = @ + 1]

PowerKeySpace ==
  /\ pacman.state # NoState
  /\ pacman.state.paused \/ pacman.state.frightenedUntil > 0
  /\ PacKeySpace

PowerNext ==
  \/ PacStart_
  \/ \E d \in PacFrameMs : PowerFrame(d)
  \/ \E wish \in {DIRS.left, DIRS.right, DIRS.up, DIRS.down} : PowerKeyDir(wish)
  \/ PowerKeySpace

PowerSpec == PacInit /\ [][PowerNext]_vars

\* Breakout's step() for a ball in flight around the first two bricks: its
\* centre on a grid of BounceGrid hundredths of a pixel within reach of
\* them, touching no brick yet, with a launch velocity or one mirrored by
\* the walls
BounceGrid == 200
BounceReachX == 1000
BounceReachY == 1800

BallVelocities ==
  { [vx |-> sx * v.vx, vy |-> sy * v.vy] : v \in LaunchVelocities, sx \in {-1, 1}, sy \in {-1, 1} }

BounceWorld(st) ==
  LET fresh == [mod |-> NewModule,
                ov  |-> [hidden |-> TRUE, title |-> ""],
                st  |-> [k \in Keys |-> [has |-> FALSE, raw |-> <<>>]],
                log |-> <<>>]
      w0    == Brk_start(fresh)
  IN IF st = NoState THEN w0 ELSE [w0 EXCEPT !.mod.state = st]

BounceInit ==
  /\ focus = "breakout" /\ Idle
  /\ \E i \in 0..((BrickRect(1).x + BrickW + 2 * BounceReachX - BrickRect(0).x) \div BounceGrid),
        j \in 0..((BRICK_H * PX + 2 * BounceReachY) \div BounceGrid),
        v \in BallVelocities, gone \in {{}, {0}} :
       LET x  == BrickRect(0).x - BounceReachX + i * BounceGrid
           y  == BrickRect(0).y - BounceReachY + j * BounceGrid
           st == [BounceWorld(NoState).mod.state EXCEPT
                    !.lastTs = 0,
                    !.bricks = [k \in 0..(BrickCount - 1) |-> k \notin gone],
                    !.ball = [x |-> x, y |-> y, vx |-> v.vx, vy |-> v.vy, attached |-> FALSE]]
       IN /\ \A k \in 0..(BrickCount - 1) :
               st.bricks[k] => ~circleRectHit(x, y, BALL_R * PX, BrickRect(k))
          /\ call = [fn |-> "step", arg |-> st, n |-> 0, out |-> st]

BounceStep ==
  /\ call.fn = "step"
  /\ call.n = 0
  /\ call' = [call EXCEPT !.n = 1, !.out = Brk_step(BounceWorld(call.arg), 1).mod.state]
  /\ UNCHANGED games

BounceSpec == BounceInit /\ [][BounceStep]_vars

\* Snake's loop() on a running game whose previous frame read the clock d ms
\* ago: less than a tick, a tick or three, or a stall of five food periods,
\* which the ages must be able to hold
LoopFrameMs == {INITIAL_SPEED_MS \div 2, SnakeShortMs, 5 * FOOD_MOVE_MS}
LoopAgeCap == 5 * FOOD_MOVE_MS

LoopInit ==
  /\ focus = "snake" /\ Idle
  /\ \E body \in StepBodies, tickMs \in {INITIAL_SPEED_MS, MIN_SPEED_MS},
        q \in SeqToSet(FoodDirs), lives \in {1, 3}, d \in LoopFrameMs :
       \E food \in spawnFood(body) :
         LET dir == Pos(body[1].x - body[2].x, body[1].y - body[2].y)
             st  == [StepWorld(NoState).mod.state EXCEPT
                       !.snake = body, !.food = food, !.dir = dir, !.queuedDir = q,
                       !.lives = lives, !.tickMs = tickMs,
                       !.lastStepTs = 0, !.lastFoodMoveTs = 0]
         IN /\ ~isOpposite(q, dir)
            /\ call = [fn |-> "loop", arg |-> [st |-> st, d |-> d], n |-> 0, out |-> st,
                       steps |-> 0]

\* steps is the frame's `const steps`, 0 when the frame does not tick
LoopFrame ==
  /\ call.fn = "loop"
  /\ call.n = 0
  /\ \E w \in Snake_loopWithin(StepWorld(call.arg.st), call.arg.d, LoopAgeCap, LoopAgeCap) :
       call' = [call EXCEPT !.n = 1, !.out = w.mod.state,
                            !.steps = IF call.arg.d >= call.arg.st.tickMs
                                      THEN stepsDue(call.arg.d, call.arg.st.tickMs) ELSE 0]
  /\ UNCHANGED games

LoopSpec == LoopInit /\ [][LoopFrame]_vars

\* chooseGhostDir for a ghost on any open cell of the maze heading any way,
\* Pac-Man on any open cell, frightened or not, for each outcome of
\* Math.random() < 0.15 and of randInt
OpenCells == {c \in MazeCells : canMove(c.x, c.y)}

GhostInit ==
  /\ focus = "pacman" /\ Idle
  /\ \E gc \in OpenCells, pc \in OpenCells, frightened \in BOOLEAN, sub \in BOOLEAN,
        d \in {DIRS.left, DIRS.right, DIRS.up, DIRS.down} :
       \E pick \in IF sub THEN 0..3 ELSE {0} :
         call = [fn  |-> "chooseGhostDir",
                 arg |-> [s    |-> [pac |-> pc,
                                    frightenedUntil |-> IF frightened THEN FRIGHTENED_MS ELSE 0],
                          g    |-> [x |-> gc.x, y |-> gc.y, dir |-> d],
                          sub  |-> sub,
                          pick |-> pick],
                 n   |-> 0,
                 out |-> DIRS.none]

GhostTurn ==
  /\ call.fn = "chooseGhostDir"
  /\ call.n = 0
  /\ call' = [call EXCEPT !.n = 1,
                          !.out = chooseGhostDir(call.arg.s, call.arg.g, call.arg.sub, call.arg.pick)]
  /\ UNCHANGED games

GhostSpec == GhostInit /\ [][GhostTurn]_vars

(***************************************************************************)
(* Properties                                                              *)
(***************************************************************************)

\* the closure and the storage key of the game this behaviour exercises
StoredBest == getBestScore(storage, CurKey)

KeyR == SnakeKeyR \/ PacKeyR \/ BrkKeyR \/ TetKeyR

HasLives == focus \in {"snake", "pacman", "breakout"}

\* C1: whenever no run is in progress (the game was stopped, or the run is
\* over), the persisted best score is the largest score any run has shown,
\* runs aborted by R or by stop included.
C1_BestIsPeak ==
  (~Started \/ ~Cur.state.running) => StoredBest = peak

C3_LifeLostPersistsBest ==
  \A i \in 1..Len(lossLog) :
    LET l == lossLog[i]
    IN l.post.lives > 0 =>
         getBestScore(l.post.st, CurKey)
           = Max(getBestScore(l.pre.st, CurKey), l.pre.score)

\* C4: between two session resets (start, R) no step lowers the score: a
\* step that ends with a smaller score is a press of R.
C4_ScoreMonotone ==
  [][ (Started /\ Cur'.state # NoState /\ Cur'.state.score < Cur.state.score)
      => KeyR ]_vars

\* a Snake run that scored, lost a life and kept its score
C4_Witness ==
  /\ focus = "snake" /\ Started
  /\ snake.state.score > 0 /\ snake.state.lives = 2 /\ lossLog # <<>>

\* C5: neither Pac-Man nor a ghost is on a cell whose maze character is '#'.
C5_NoActorInWall ==
  pacman.state # NoState =>
    /\ MazeChar(pacman.state.pac.x, pacman.state.pac.y) # "#"
    /\ \A i \in 0..3 :
         MazeChar(pacman.state.ghosts[i].x, pacman.state.ghosts[i].y) # "#"

\* C6: every snake segment and the food cell have both coordinates in
\* 0 .. GRID_SIZE - 1.
C6_InsideGrid ==
  snake.state # NoState =>
    /\ \A i \in 1..Len(snake.state.snake) :
         /\ snake.state.snake[i].x \in 0..(GRID_SIZE - 1)
         /\ snake.state.snake[i].y \in 0..(GRID_SIZE - 1)
    /\ snake.state.food.x \in 0..(GRID_SIZE - 1)
    /\ snake.state.food.y \in 0..(GRID_SIZE - 1)

\* a snake that has grown and has its head on the top row
C6_Witness ==
  /\ snake.state # NoState
  /\ Len(snake.state.snake) = 4
  /\ snake.state.snake[1].y = 0

\* C7: the direction the next tick applies (queuedDir) is never the exact
\* opposite of the direction of the previous tick (dir), whatever keys were
\* pressed in between; and a key press asking for the opposite of dir leaves
\* queuedDir as it was.
C7_NoReversal ==
  [][ (snake.state # NoState /\ snake'.state # NoState) =>
        /\ ~(/\ snake'.state.queuedDir.x = -snake'.state.dir.x
             /\ snake'.state.queuedDir.y = -snake'.state.dir.y)
        /\ \A i \in 1..4 :
             (/\ FoodDirs[i].x = -snake.state.dir.x
              /\ FoodDirs[i].y = -snake.state.dir.y
              /\ snake'.state.queuedDir # snake.state.queuedDir)
             => ~SnakeKeyDir(FoodDirs[i]) ]_vars

\* the snake travels up, a turn to the left is queued, after two key presses
C7_Witness ==
  /\ snake.state # NoState
  /\ snake.state.dir = Pos(0, -1)
  /\ snake.state.queuedDir = Pos(-1, 0)
  /\ meter.keys = 2

\* C8: Pac-Man's travel direction never becomes its exact opposite from one
\* step to the next (life losses and R, which put Pac-Man back facing left,
\* set aside).
C8_NoReversal ==
  [][ (/\ pacman.state # NoState /\ pacman'.state # NoState
       /\ pacman.state.pac.dir # DIRS.none
       /\ pacman'.state.pac.dir.x = -pacman.state.pac.dir.x
       /\ pacman'.state.pac.dir.y = -pacman.state.pac.dir.y)
      => (lossLog' # <<>> \/ PacKeyR) ]_vars

\* C9: lives stays in 0..3, no lives left means the run is over (so a
\* running game has a life), and every loseLife() call takes exactly one.
C9_Lives ==
  (HasLives /\ Started) =>
    /\ Cur.state.lives \in 0..3
    /\ Cur.state.lives = 0 => ~Cur.state.running
    /\ Cur.state.running => Cur.state.lives >= 1
    /\ \A i \in 1..Len(lossLog) : lossLog[i].post.lives = lossLog[i].pre.lives - 1

\* a Breakout run that has just lost its last life
C9_Witness ==
  /\ focus = "breakout" /\ Started
  /\ lossLog # <<>>
  /\ breakout.state.lives = 0

\* C10: a loseLife() call that leaves lives remaining keeps the run running
\* and the score and the board (pellets and power pellets, bricks) as they
\* were; Pac-Man and the ghosts are back on their start cells with
\* frightened mode over, the ball is attached, the snake is the 3-cell start.
C10_LifeLossKeepsBoard ==
  \A i \in 1..Len(lossLog) :
    LET l == lossLog[i]
        mid == GRID_SIZE \div 2
    IN l.post.lives > 0 =>
         /\ l.post.running
         /\ l.post.score = l.pre.score
         /\ l.post.board = l.pre.board
         /\ focus = "snake" =>
              l.post.actors = <<Pos(mid + 1, mid), Pos(mid, mid), Pos(mid - 1, mid)>>
         /\ focus = "pacman" =>
              /\ l.post.actors.pac.x = PacStart.x
              /\ l.post.actors.pac.y = PacStart.y
              /\ \A g \in 0..3 :
                   /\ l.post.actors.ghosts[g].x = GhostGate.x + (g % 2)
                   /\ l.post.actors.ghosts[g].y = GhostGate.y + (g \div 2)
              /\ l.post.actors.frightenedUntil = 0
         /\ focus = "breakout" => l.post.actors.attached

\* Pac-Man has just lost a life after eating pellets
C10_Witness ==
  /\ focus = "pacman" /\ Started
  /\ lossLog # <<>>
  /\ pacman.state.lives = 2
  /\ pacman.state.score > 0

\* what the player sees of the simulation: score, lives, where the actors
\* are, what is on the board
SimView ==
  CASE focus = "snake" ->
         [score |-> snake.state.score, lives |-> snake.state.lives,
          actors |-> snake.state.snake, board |-> snake.state.food]
    [] focus = "pacman" ->
         [score |-> pacman.state.score, lives |-> pacman.state.lives,
          actors |-> <<pacman.state.pac.x, pacman.state.pac.y,
                       [g \in 0..3 |-> <<pacman.state.ghosts[g].x, pacman.state.ghosts[g].y>>]>>,
          board |-> <<pacman.state.pellets, pacman.state.power>>]
    [] focus = "breakout" ->
         [score |-> breakout.state.score, lives |-> breakout.state.lives,
          actors |-> <<breakout.state.paddle.x, breakout.state.ball.x, breakout.state.ball.y>>,
          board |-> breakout.state.bricks]
    [] OTHER ->
         [score |-> tetris.state.score, lives |-> 0,
          actors |-> <<tetris.state.active, tetris.state.ax, tetris.state.ay>>,
          board |-> tetris.state.board]

\* the whole state but for its clock readings
Timeless ==
  CASE focus = "snake" ->
         [snake.state EXCEPT !.lastStepTs = 0, !.lastFoodMoveTs = 0]
    [] focus = "pacman" ->
         [pacman.state EXCEPT !.lastTs = 0, !.frightenedUntil = 0]
    [] focus = "breakout" ->
         [breakout.state EXCEPT !.lastTs = 0]
    [] OTHER ->
         [tetris.state EXCEPT !.lastDropTs = 0]

Frame ==
  \/ \E d \in SnakeFrameMs : SnakeFrame(d)
  \/ \E d \in PacFrameMs : PacFrame(d)
  \/ \E d \in BrkFrameMs : BrkFrame(d)
  \/ \E d \in TetFrameMs : TetFrame(d)

StartOp == SnakeStart \/ PacStart_ \/ BrkStart \/ TetStart

C12_LastPelletWins ==
  [][ pacman'.state # NoState =>
        /\ pacman'.state.running =>
             pacman'.state.pellets \cup pacman'.state.power # {}
        /\ (/\ pacman.state # NoState
            /\ pacman.state.pellets \cup pacman.state.power # {}
            /\ pacman'.state.pellets \cup pacman'.state.power = {})
           => /\ ~pacman'.state.running
              /\ ~overlay'.hidden
              /\ overlay'.title = "You Win" ]_vars

\* the last pellet is eaten and the run is won
C12_Witness ==
  /\ pacman.state # NoState
  /\ pacman.state.pellets \cup pacman.state.power = {}
  /\ ~pacman.state.running
  /\ overlay.title = "You Win"

\* C13: whenever no brick is alive the run is over and the overlay shows
\* 'You Win'.
C13_NoBrickMeansWon ==
  (breakout.state # NoState /\ \A i \in DOMAIN breakout.state.bricks : ~breakout.state.bricks[i])
  => /\ ~breakout.state.running
     /\ ~overlay.hidden
     /\ overlay.title = "You Win"

\* C14: a frame callback delivered while the game is paused changes nothing
\* of the state but clock readings.
C14_PausedFramesIdle ==
  [][ (/\ Started /\ Cur.state.paused
       /\ Cur'.state # NoState
       /\ Timeless' # Timeless)
      => ~Frame ]_vars

\* Snake is paused with a score, and frames have aged its food timer
C14_Witness ==
  /\ focus = "snake" /\ Started
  /\ snake.state.paused
  /\ snake.state.score > 0
  /\ snake.state.lastFoodMoveTs = FoodAgeCap

\* C15: the food hops on a frame only when FOOD_MOVE_MS of un-paused time
\* has passed since the food timer was last set; meter.frames counts the
\* stepping (un-paused) frames of this life before the step, each
\* SnakeShortMs long.
C15_FoodTimerResync ==
  [][ (/\ snake.state # NoState /\ snake'.state # NoState
       /\ snake.state.running /\ ~snake.state.paused
       /\ lossLog' = <<>>
       /\ snake'.state.score = snake.state.score
       /\ snake'.state.food # snake.state.food)
      => ((meter.frames + 1) * SnakeShortMs >= FOOD_MOVE_MS \/ SnakeKeyR) ]_vars

\* C16: Snake and Pac-Man have at most one life-lost timer pending, and
\* lifeLostTimeoutId is set exactly while one is pending.
C16_OneTimer ==
  focus \in {"snake", "pacman"} =>
    /\ Cur.timers \in {0, 1}
    /\ Cur.lifeLostTimeoutId # Null <=> Cur.timers = 1

\* Snake has lost two lives and one timer is pending
C16_Witness ==
  /\ focus = "snake" /\ Started
  /\ snake.state.lives = 1
  /\ lossLog # <<>>
  /\ snake.timers = 1
  /\ snake.lifeLostTimeoutId # Null

\* C17: Breakout never has two life-lost timers pending (a new one cancels
\* the one before).
C17_OneTimer == breakout.timers <= 1

\* C18: a stopped game has no frame callback and no timer pending, no key
\* listeners and no state.
C18_StopCancelsAll ==
  ~Started =>
    /\ Cur.rafPending = 0
    /\ Cur.timers = 0
    /\ ~Cur.runningAttached

\* C19: while a game is stopped (its listeners are detached), only start()
\* changes its state, the overlay or localStorage.
C19_StoppedIsInert ==
  [][ (/\ ~Cur.runningAttached
       /\ \/ Cur'.state # Cur.state
          \/ overlay' # overlay
          \/ storage' # storage)
      => StartOp ]_vars

\* Breakout was stopped and the callback of a life-lost timer is still to come
C19_Witness ==
  /\ focus = "breakout"
  /\ ~Started /\ ~breakout.runningAttached
  /\ breakout.timers > 0

\* the sessions R can produce from world w of the focused game
ResetOutcomes(w) ==
  CASE focus = "snake" -> Snake_resetState(w)
    [] focus = "pacman" -> {Pac_resetState(w)}
    [] focus = "breakout" -> {Brk_resetState(w)}
    [] OTHER -> Tet_resetState(w)

\* C20: in every state of a started game, R gives a session with score 0,
\* three lives, running, not paused, the overlay hidden and the initial
\* board; it is the session R would give with no previous session at all,
\* and localStorage is as it was.
C20_RestartIsFresh ==
  Started =>
    LET w0 == [mod |-> Cur, ov |-> overlay, st |-> storage, log |-> <<>>]
        mid == GRID_SIZE \div 2
    IN /\ \A w \in ResetOutcomes(w0) :
            LET s == w.mod.state
            IN /\ s.score = 0 /\ s.running /\ ~s.paused
               /\ w.ov.hidden
               /\ w.st = storage
               /\ s.best = StoredBest
               /\ HasLives => s.lives = 3
               /\ focus = "snake" =>
                    s.snake = <<Pos(mid + 1, mid), Pos(mid, mid), Pos(mid - 1, mid)>>
               /\ focus = "pacman" =>
                    /\ s.pellets = ParsedPellets /\ s.power = ParsedPower
                    /\ s.pac.x = PacStart.x /\ s.pac.y = PacStart.y
               /\ focus = "breakout" =>
                    /\ \A i \in DOMAIN s.bricks : s.bricks[i]
                    /\ s.ball.attached
               /\ focus = "tetris" =>
                    /\ s.board = makeBoard
                    /\ s.lines = 0 /\ s.level = 0
       /\ {w.mod.state : w \in ResetOutcomes(w0)}
            = {w.mod.state : w \in ResetOutcomes([w0 EXCEPT !.mod.state = NoState])}

\* a fresh Tetris session after an earlier one ended with a new best score
C20_Witness ==
  /\ focus = "tetris" /\ Started
  /\ tetris.state.running
  /\ tetris.state.score = 0
  /\ tetris.state.best > 0
  /\ StoredBest = tetris.state.best

\* C21: four applications of rotateCW give back the matrix they started
\* from (each of the seven pieces among them), and after every application
\* the result has the dimensions of the matrix, swapped after an odd number
\* of applications.
C21_RotateFourTimes ==
  call.fn = "rotateCW" =>
    LET h   == Len(call.arg)
        w   == Len(call.arg[1])
        odd == call.n % 2 = 1
    IN /\ call.n = 4 => call.out = call.arg
       /\ Len(call.out) = IF odd THEN w ELSE h
       /\ \A r \in 1..Len(call.out) : Len(call.out[r]) = IF odd THEN h ELSE w

\* the T piece after its fourth rotation
C21_Witness ==
  /\ call.fn = "rotateCW"
  /\ call.arg = PIECES.T
  /\ call.n = 4

\* what updateScore(n) adds to the score of state st
ScoreGain(st, n) == Tet_updateScore(ScoreWorld(st), n).mod.state.score - st.score

\* C22 as stated: clearing N rows at once awards strictly more than N times
\* what clearing one row awards at the same level, for N = 1, 2, 3, 4.
C22_StrictlyMore ==
  (call.fn = "updateScore" /\ call.n > 0) =>
    call.out.score - call.arg.score > call.n * ScoreGain(call.arg, 1)

\* C22, amended: clearing N rows at once awards strictly more than N times
\* the single-row value for N = 2, 3, 4; for N = 1 it awards the single-row
\* value itself.
C22_MultiRowBonus ==
  (call.fn = "updateScore" /\ call.n > 0) =>
    LET gain   == call.out.score - call.arg.score
        single == ScoreGain(call.arg, 1)
    IN /\ single > 0
       /\ call.n = 1 => gain = single
       /\ call.n > 1 => gain > call.n * single

\* four rows cleared at once at level 2
C22_Witness ==
  /\ call.fn = "updateScore"
  /\ call.n = 4
  /\ call.arg.level = 2

\* C23: a tick of Snake that hits neither a wall nor the snake and puts the
\* head on the food cell makes that cell the head, adds 1 to the length and
\* to the score, and sets tickMs to max(60, tickMs - 7) when the new score
\* is a multiple of 5 and leaves it alone otherwise; such a tick that does
\* not reach the food leaves the length as it was.
C23_EatGrows ==
  (call.fn = "step" /\ call.n = 1) =>
    LET a    == call.arg
        o    == call.out
        nh   == Pos(a.snake[1].x + a.queuedDir.x, a.snake[1].y + a.queuedDir.y)
        free == /\ nh.x \in 0..(GRID_SIZE - 1) /\ nh.y \in 0..(GRID_SIZE - 1)
                /\ \A i \in 1..Len(a.snake) : a.snake[i] # nh
    IN /\ (free /\ nh = a.food) =>
            /\ o.snake[1] = nh
            /\ Len(o.snake) = Len(a.snake) + 1
            /\ o.score = a.score + 1
            /\ o.tickMs = IF o.score % 5 = 0 THEN Max(60, a.tickMs - 7) ELSE a.tickMs
       /\ (free /\ nh # a.food) =>
            /\ o.snake[1] = nh
            /\ Len(o.snake) = Len(a.snake)
            /\ o.score = a.score
            /\ o.tickMs = a.tickMs

\* the 50th food is eaten and the tick length is clamped at 60 ms
C23_Witness ==
  /\ call.fn = "step" /\ call.n = 1
  /\ call.arg.score = 49 /\ call.out.score = 50
  /\ call.arg.tickMs = 64 /\ call.out.tickMs = 60
  /\ Len(call.out.snake) = 4

\* C24: while a game is started its muted flag equals the router's.
C24_MuteForwarded == Started => muted[focus] = muted.router

C26_FoodPlaced ==
  (call.fn = "eatFoodAt" /\ call.n = 1) =>
    LET occupied == SeqToSet(call.arg.snake)
        f        == call.out.food
    IN /\ f.x \in 0..(GRID_SIZE - 1) /\ f.y \in 0..(GRID_SIZE - 1)
       /\ f \notin occupied \/ f = Pos(0, 0)
       /\ occupied = Cells => f = Pos(0, 0)
       /\ call.out.running = call.arg.running
       /\ call.out.lives = call.arg.lives

\* the snake fills the board, the food falls back to (0,0), the run goes on
C26_Witness ==
  /\ call.fn = "eatFoodAt" /\ call.n = 1
  /\ Len(call.arg.snake) = GRID_SIZE * GRID_SIZE
  /\ call.out.food = Pos(0, 0)
  /\ call.out.running

\* C27: tryRotate puts the rotated matrix at the first of the offsets
\* (0,0), (-1,0), (1,0), (-2,0), (2,0), (0,-1) at which it does not collide;
\* when it collides at all six, or the piece is the O piece, the matrix and
\* its anchor stay as they were.  The board is never touched.
C27_FirstFreeKick ==
  (call.fn = "tryRotate" /\ call.n = 1) =>
    LET a       == call.arg
        o       == call.out
        off     == <<Pos(0, 0), Pos(-1, 0), Pos(1, 0), Pos(-2, 0), Pos(2, 0), Pos(0, -1)>>
        rot     == rotateCW(a.active.cells)
        fits(i) == ~collides(a.board, rot, a.ax + off[i].x, a.ay + off[i].y)
    IN /\ o.board = a.board
       /\ (a.active.kind = "O" \/ \A i \in 1..6 : ~fits(i)) => o = a
       /\ a.active.kind # "O" =>
            \A i \in 1..6 :
              (fits(i) /\ \A j \in 1..(i - 1) : ~fits(j)) =>
                /\ o.active = [kind |-> a.active.kind, cells |-> rot]
                /\ o.ax = a.ax + off[i].x
                /\ o.ay = a.ay + off[i].y

\* a rotation that only fits one row up, the last of the offsets
C27_Witness ==
  /\ call.fn = "tryRotate" /\ call.n = 1
  /\ call.arg.active.kind # "O"
  /\ call.out.ay = call.arg.ay - 1
  /\ call.out.active.cells = rotateCW(call.arg.active.cells)

GhostLegal(g) ==
  {d \in {DIRS.left, DIRS.right, DIRS.up, DIRS.down} :
     /\ d # Pos(-g.dir.x, -g.dir.y)
     /\ ~isWall(wrapTunnel(MazeCols, g.x + d.x), g.y + d.y)}

\* Manhattan distance from the neighbour cell in direction d to Pac-Man
GhostDist(s, g, d) ==
  Abs(wrapTunnel(MazeCols, g.x + d.x) - s.pac.x) + Abs(g.y + d.y - s.pac.y)

\* position of a direction in the order left, right, up, down
DirRank(d) ==
  IF d = DIRS.left THEN 1 ELSE IF d = DIRS.right THEN 2 ELSE IF d = DIRS.up THEN 3 ELSE 4

\* C29: chooseGhostDir returns a direction that is neither the reverse of
\* the ghost's direction nor blocked by a wall whenever there is one, with
\* or without the random substitution, and the reverse when there is none.
C29_NoReverseUnlessForced ==
  (call.fn = "chooseGhostDir" /\ call.n = 1) =>
    LET g == call.arg.g
    IN /\ GhostLegal(g) # {} => call.out \in GhostLegal(g)
       /\ GhostLegal(g) = {} => call.out = Pos(-g.dir.x, -g.dir.y)
       /\ call.out = Pos(-g.dir.x, -g.dir.y) => GhostLegal(g) = {}

\* the substitution fired and picked a legal direction that leads away from
\* Pac-Man although a nearer one was open
C29_Witness ==
  /\ call.fn = "chooseGhostDir" /\ call.n = 1
  /\ call.arg.sub
  /\ call.arg.s.frightenedUntil = 0
  /\ Cardinality(GhostLegal(call.arg.g)) = 3
  /\ call.out \in GhostLegal(call.arg.g)
  /\ \E d \in GhostLegal(call.arg.g) :
       GhostDist(call.arg.s, call.arg.g, d) < GhostDist(call.arg.s, call.arg.g, call.out)

\* C30: without the random substitution chooseGhostDir returns, among the
\* legal directions, one whose neighbour cell is nearest to Pac-Man (farthest
\* when frightened), and of several such the first in the order left, right,
\* up, down.
C30_GreedyChoice ==
  (call.fn = "chooseGhostDir" /\ call.n = 1 /\ ~call.arg.sub
     /\ GhostLegal(call.arg.g) # {}) =>
    LET s == call.arg.s
        g == call.arg.g
        frightened == s.frightenedUntil > 0
        better(a, b) == IF frightened THEN GhostDist(s, g, a) > GhostDist(s, g, b)
                        ELSE GhostDist(s, g, a) < GhostDist(s, g, b)
    IN /\ call.out \in GhostLegal(g)
       /\ \A d \in GhostLegal(g) : ~better(d, call.out)
       /\ \A d \in GhostLegal(g) :
            GhostDist(s, g, d) = GhostDist(s, g, call.out) => DirRank(call.out) <= DirRank(d)

\* a frightened ghost with two equally far ways out takes the first of them
C30_Witness ==
  /\ call.fn = "chooseGhostDir" /\ call.n = 1 /\ ~call.arg.sub
  /\ call.arg.s.frightenedUntil > 0
  /\ \E d \in GhostLegal(call.arg.g) :
       /\ d # call.out
       /\ GhostDist(call.arg.s, call.arg.g, d) = GhostDist(call.arg.s, call.arg.g, call.out)
       /\ DirRank(call.out) < DirRank(d)
  /\ \E d \in GhostLegal(call.arg.g) :
       GhostDist(call.arg.s, call.arg.g, d) < GhostDist(call.arg.s, call.arg.g, call.out)

\* the cells of the well a piece with matrix cells covers at anchor (px, py)
PieceCells(cells, px, py) == {Pos(px + f.x, py + f.y) : f \in FilledCells(cells)}

\* every cell is in a column of the well and above its floor, and the cells
\* inside the well are not locked
InsideWell(board, cs) ==
  \A c \in cs : /\ c.x \in 0..(COLS - 1)
                /\ c.y < ROWS
                /\ c.y >= 0 => ~board[c.y + 1][c.x + 1]

\* C31: while a Tetris run is running, the active piece overlaps no locked
\* cell and each of its cells has a column of the well and a row above the
\* floor; so has the place a hard drop would lock it, and merge writes only
\* cells of the board.
C31_ActiveInsideWell ==
  (tetris.state # NoState /\ tetris.state.running) =>
    LET s == tetris.state
    IN /\ s.active # NoState
       /\ InsideWell(s.board, PieceCells(s.active.cells, s.ax, s.ay))
       /\ InsideWell(s.board, PieceCells(s.active.cells, s.ax, getHardDropY(s, s.ay)))

\* a rotated piece against the right wall, resting on locked cells
C31_Witness ==
  /\ tetris.state # NoState /\ tetris.state.running
  /\ tetris.state.active.cells # PIECES[tetris.state.active.kind]
  /\ \E c \in PieceCells(tetris.state.active.cells, tetris.state.ax, tetris.state.ay) :
       c.x = COLS - 1
  /\ \E r \in 1..ROWS, c \in 1..COLS : tetris.state.board[r][c]
  /\ collides(tetris.state.board, tetris.state.active.cells, tetris.state.ax, tetris.state.ay + 1)

\* in this step Pac-Man and ghost i exchange cells
PacExchange(i) ==
  /\ pacman.state # NoState /\ pacman'.state # NoState
  /\ pacman.state.running /\ ~pacman.state.paused
  /\ pacman.rafPending > 0
  /\ LET p == pacman.state.pac
         q == pacman'.state.pac
         g == pacman.state.ghosts[i]
         h == pacman'.state.ghosts[i]
     IN /\ <<p.x, p.y>> # <<q.x, q.y>>
        /\ <<q.x, q.y>> = <<g.x, g.y>>
        /\ <<h.x, h.y>> = <<p.x, p.y>>

\* C32: when Pac-Man and a ghost that is not frightened exchange cells
\* within one frame, that frame handles a collision: a life is lost.
C32_NoPassThrough ==
  [][\A i \in 0..3 :
       (PacExchange(i) /\ pacman'.state.frightenedUntil = 0)
         => pacman'.state.lives < pacman.state.lives]_vars

\* C33: a step taken while Pac-Man is paused, the unpausing Space
\* included, leaves the frightened time that remains as it was.
C33_PauseKeepsFright ==
  [][(/\ pacman.state # NoState /\ pacman'.state # NoState
      /\ pacman.state.running /\ pacman.state.paused
      /\ pacman.state.frightenedUntil > 0)
       => pacman'.state.frightenedUntil = pacman.state.frightenedUntil]_vars

\* the bricks a step of the ball has broken
BrokenBricks ==
  {i \in 0..(BrickCount - 1) : call.arg.bricks[i] /\ ~call.out.bricks[i]}

\* C34: a brick hit negates exactly one velocity component, chosen from the
\* ball's centre before the step: the horizontal one when the centre was left
\* or right of the brick and neither above nor below it, the vertical one
\* when it was above or below, also in a corner hit where it was beside the
\* brick as well.
C34_CornerFlipsVertical ==
  (call.fn = "step" /\ call.n = 1) =>
    \A i \in BrokenBricks :
      LET br     == BrickRect(i)
          b      == call.arg.ball
          o      == call.out.ball
          beside == b.x < br.x \/ b.x > br.x + br.w
          level  == b.y < br.y \/ b.y > br.y + br.h
      IN /\ (beside /\ ~level) => (o.vx = -b.vx /\ o.vy = b.vy)
         /\ level => (o.vx = b.vx /\ o.vy = -b.vy)

\* the ticks a frame owes: none before a whole tick has passed, five at most
TicksDue(elapsed, tickMs) ==
  IF elapsed < tickMs THEN 0
  ELSE IF elapsed \div tickMs > 5 THEN 5 ELSE elapsed \div tickMs

RECURSIVE TickRuns(_, _)
\* the runs of n ticks from the runs rs, a run stopping early only when the
\* game ends: the world reached, the ticks taken and the ticks that cost a
\* life instead of moving the head to the next cell
TickRuns(rs, n) ==
  IF n = 0 THEN rs
  ELSE UNION { IF ~r.w.mod.state.running THEN {r}
               ELSE TickRuns({ [w     |-> x,
                                ticks |-> r.ticks + 1,
                                lost  |-> r.lost + IF x.mod.state.lives < r.w.mod.state.lives
                                                   THEN 1 ELSE 0]
                               : x \in Snake_step(r.w) }, n - 1)
               : r \in rs }

RECURSIVE FoodMoves(_, _)
\* the worlds after k moves of the food
FoodMoves(ws, k) ==
  IF k = 0 THEN ws ELSE FoodMoves(UNION { Snake_moveFoodOnce(w) : w \in ws }, k - 1)

\* what the player sees of a Snake state
SnakeSeen(st) ==
  [snake |-> st.snake, food |-> st.food, lives |-> st.lives, score |-> st.score,
   running |-> st.running, tickMs |-> st.tickMs]

\* the runs of the ticks the frame of `call` owes that, followed by at most
\* three moves of the food, end as the frame ended
LoopRuns ==
  LET w0 == StepWorld(call.arg.st)
      n  == TicksDue(call.arg.d, call.arg.st.tickMs)
  IN { r \in TickRuns({[w |-> w0, ticks |-> 0, lost |-> 0]}, n) :
         \E k \in 0..3 :
           SnakeSeen(call.out) \in { SnakeSeen(x.mod.state) : x \in FoodMoves({r.w}, k) } }

\* C35 as stated: a frame moves the snake min(5, floor(elapsed / tickMs))
\* cells forward, fewer only if the run ends in the frame, and moves the
\* food at most 3 times.
C35_CellsPerFrame ==
  (call.fn = "loop" /\ call.n = 1) =>
    /\ call.steps = TicksDue(call.arg.d, call.arg.st.tickMs)
    /\ \E r \in LoopRuns :
         \/ ~r.w.mod.state.running
         \/ r.ticks - r.lost = TicksDue(call.arg.d, call.arg.st.tickMs)

\* C35 amended: a frame takes min(5, floor(elapsed / tickMs)) ticks, fewer
\* only if the run ends in the frame, and moves the food at most 3 times; a
\* tick moves the snake one cell or costs a life.
C35_TicksPerFrame ==
  (call.fn = "loop" /\ call.n = 1) =>
    /\ call.steps = TicksDue(call.arg.d, call.arg.st.tickMs)
    /\ \E r \in LoopRuns :
         \/ ~r.w.mod.state.running
         \/ r.ticks = TicksDue(call.arg.d, call.arg.st.tickMs)

\* a frame at the fastest tick that owes three ticks: the snake moves one
\* cell, the other two ticks cost a life each, and the run goes on
C35_Witness ==
  /\ call.fn = "loop" /\ call.n = 1
  /\ call.arg.st.tickMs = MIN_SPEED_MS
  /\ call.steps = 3
  /\ call.out.running
  /\ call.out.lives = call.arg.st.lives - 2
  /\ \E r \in LoopRuns : r.ticks = 3 /\ r.lost = 2

\* the modules that hold a state
LiveGames ==
  {g \in Games : RouterWorld(g).mod.state # NoState}

Modules == <<snake, pacman, breakout, tetris>>

C37_OneFrameOneListener ==
  /\ [](\A i \in 1..4 :
          /\ Modules[i].rafPending \in 0..1
          /\ Modules[i].listeners = (IF Modules[i].runningAttached THEN 1 ELSE 0)
          /\ Modules[i].state = NoState
               => Modules[i].rafPending = 0 /\ Modules[i].listeners = 0)
  /\ [][\A g \in Games :
          StartAgain(g) => /\ RouterWorld(g)'.mod.rafPending = 1
                           /\ RouterWorld(g)'.mod.listeners = 1]_vars

\* a started module that has run frames, with its frame callback pending and
\* its listener attached, on which start() can be called again
C37_Witness ==
  /\ ENABLED StartAgain(focus)
  /\ RouterWorld(focus).mod.rafPending = 1
  /\ RouterWorld(focus).mod.listeners = 1
  /\ meter.frames > 0
\* C38: every lock clears between 0 and 4 rows, so linePoints[lines] is an
\* element of the array, and the score after the lock is a non-negative
\* integer: the score before plus linePoints[lines] * (level + 1).
C38_LockClearsAtMostFour ==
  (call.fn = "lines" /\ call.n = 1 /\ ~call.out.over)
    => /\ call.out.cleared \in 0..4
       /\ call.out.defined
       /\ call.out.score \in Nat
       /\ call.out.score
            = call.arg.score + linePoints[call.out.cleared + 1] * (call.arg.level + 1)
       /\ call.out.lines = call.arg.lines + call.out.cleared

\* a lock that clears four rows at once and takes the session to level 1
C38_Witness ==
  /\ call.fn = "lines" /\ call.n = 1 /\ ~call.out.over
  /\ call.out.cleared = 4
  /\ call.out.score = call.arg.score + linePoints[5]
  /\ call.out.level = call.arg.level + 1
====
